---- MODULE Spec2Model ----
(***************************************************************************)
(* A model of the TinyTask macro recorder/player.                          *)
(*                                                                         *)
(*   modular variant    main.py + recorder.py + player.py + utils.py       *)
(*   monolithic variant MacOSTinyTask.py                                   *)
(*                                                                         *)
(* Threads of the modular variant: the control threads (Tk main loop and   *)
(* the pynput GlobalHotKeys thread) run the main.py callbacks; the mouse   *)
(* and the keyboard listener threads run the Recorder callbacks; every     *)
(* play request spawns a worker thread running play.run / Player.play.     *)
(* A callback of a control thread is one action.  A listener callback and  *)
(* a worker are split at their reads and writes of shared fields, because  *)
(* the code takes no lock anywhere.                                        *)
(*                                                                         *)
(* Time is counted in ticks of 5 ms.  Strings that the code parses (key    *)
(* symbols) are sequences of one-character strings.                        *)
(***************************************************************************)
EXTENDS Integers, Sequences, FiniteSets, TLC

\* ---------------------------------------------------------------- bounds
\* perf_counter() stops advancing at MaxTime ticks.
MaxTime == 4
\* No callback starts once MaxEvents events are recorded or on their way.
MaxEvents == 2
\* Macro objects the Recorder can allocate (Recorder.__init__ makes the first).
MaxRecMacros == 2
\* Macro objects the Control Surface can allocate (main.py makes the first).
MaxLoadMacros == 3
\* Macro objects of the Control Surface in the specifications that play.
MaxPlayLoads == 2
\* Player.stop() calls counted between two playbacks.
MaxStops == 2
\* Playback threads of MacOSTinyTask.py alive at once.
MaxMonoThreads == 1

\* ------------------------------------------------------------- constants
\* Recorder(move_min_interval=0.01): 10 ms = 2 ticks.
MoveMinInterval == 2

\* None, for a field that holds a number / a position / a macro.
NoTime == -1
NoPos == <<>>
NoMacro == 0

\* ---------------------------------------------------------------- strings
Str_char == <<"c", "h", "a", "r", ":">>
Str_key == <<"k", "e", "y", ":">>
Str_Key_dot == <<"K", "e", "y", ".">>

\* ------------------------------------------------------------------- keys
\* A pynput key as key_to_str sees it: char (KeyCode.char, or None),
\* name (Key.<name>.name, or None for a KeyCode), repr (str(k)).
NoStr == <<"\\0">>
KeyChar(c) == [char |-> <<c>>, name |-> NoStr, repr |-> <<"'", c, "'">>]
KeyNamed(n) == [char |-> NoStr, name |-> n, repr |-> Str_Key_dot \o n]
KeyCodeOnly(vk) == [char |-> NoStr, name |-> NoStr, repr |-> <<"<">> \o vk \o <<">">>]

Key_f3 == KeyNamed(<<"f", "3">>)
Key_f4 == KeyNamed(<<"f", "4">>)
Key_f6 == KeyNamed(<<"f", "6">>)
Key_f7 == KeyNamed(<<"f", "7">>)
Key_f8 == KeyNamed(<<"f", "8">>)
Key_f9 == KeyNamed(<<"f", "9">>)
Key_f10 == KeyNamed(<<"f", "1", "0">>)
Key_f11 == KeyNamed(<<"f", "1", "1">>)
Key_esc == KeyNamed(<<"e", "s", "c">>)

\* Recorder.IGNORE_KEYS.
IGNORE_KEYS == {Key_f8, Key_f9, Key_f10, Key_f11, Key_esc}

\* ui.keys: DEFAULT_KEYS of ui.py, as pynput keys through _FKEY_TO_PYNPUT.
ui_keys == [record |-> Key_f3, play |-> Key_f7, save |-> Key_f4, open |-> Key_f6]

\* main.get_control_keys().
get_control_keys == {ui_keys.record, ui_keys.play, ui_keys.save, ui_keys.open}

\* utils.key_to_str with one tag for every key.
key_to_str_OneTag(k) ==
    IF k.char # NoStr THEN Str_key \o k.char
    ELSE IF k.name # NoStr /\ k.name # <<>> THEN Str_key \o k.name
    ELSE Str_key \o k.repr

\* utils.key_to_str.
key_to_str(k) ==
    IF k.char # NoStr THEN Str_char \o k.char
    ELSE IF k.name # NoStr /\ k.name # <<>> THEN Str_key \o k.name
    ELSE Str_key \o k.repr

\* ------------------------------------------------------------ the inputs
\* What the input subsystem delivers to the listeners.
Positions == {<<0, 0>>, <<1, 0>>}
ClickPositions == {<<0, 0>>}
\* pynput.mouse.Button: the three standard buttons, and the member the
\* platform reports for any other button.  Each is written as str() shows it.
Button_left == "Button.left"
Button_right == "Button.right"
Button_middle == "Button.middle"
Button_unknown == "Button.unknown"
Buttons == {Button_left}
AllButtons == {Button_left, Button_right, Button_middle, Button_unknown}
ScrollDeltas == {<<0, 1>>}
Keys == {KeyChar("a"), Key_f3, Key_f8}

\* utils.button_to_str: a short name for the three standard buttons, str(b)
\* for any other.
button_to_str(b) ==
    CASE b = Button_left -> "left"
      [] b = Button_right -> "right"
      [] b = Button_middle -> "middle"
      [] OTHER -> b

\* models.Event.
Event(t, kind, data) == [t |-> t, kind |-> kind, data |-> data]

NoData == [none |-> TRUE]

MouseThread == "mouse"
KbdThread == "kbd"
Threads == {MouseThread, KbdThread}

VARIABLES
    \* time.perf_counter(), in ticks
    perf_counter,
    \* the Macro objects: heap[id] is the events list of object id
    heap,
    \* how many Macro objects the Recorder / the Control Surface allocated
    nrec, nload,
    \* Recorder: clock._t0, _recording, macro, _last_move_t, _last_pos
    clock_t0, rec_recording, rec_macro, rec_last_move_t, rec_last_pos,
    \* the callback each listener thread is in: pc, kind, data, t, list
    listener,
    \* main.py: macro_ref, and the last message given to set_status
    macro_ref, status,
    \* Player: _playing, _stop_evt
    player_playing, player_stop_evt,
    \* the playback threads: where each is in play.run / Player.play
    worker,
    \* what each playback thread has emitted since it was started
    emitted,
    \* history of the stop requests (read by no action of the program)
    ghost,
    \* the documents AppUI._save has written, by path; AppUI.current_filename
    files, current_filename,
    \* AppUI._recording, AppUI._playing: what the two toggle buttons show
    ui_recording, ui_playing,
    \* MacOSTinyTask.py: macro.events, recording, playing, stop_play_event,
    \* _rec_start_time, _last_move_time, _last_move_pos, the status label
    m_macro, m_recording, m_playing, m_stop_play_event,
    m_rec_start_time, m_last_move_time, m_last_move_pos, m_status,
    \* MacOSTinyTask.py: the playback threads, and what each has emitted
    m_worker, m_emitted,
    \* MacOSTinyTask.py: the callback each listener thread is in
    m_listener,
    \* history of the requests made to MacOSTinyTask.py
    m_ghost

recVars == <<clock_t0, rec_recording, rec_macro, rec_last_move_t, rec_last_pos>>
playVars == <<player_playing, player_stop_evt, worker, emitted, ghost>>
heapVars == <<heap, nrec, nload>>
toggleVars == <<ui_recording, ui_playing>>
uiVars == <<files, current_filename, toggleVars>>
modVars == <<perf_counter, heapVars, recVars, listener, macro_ref, status, playVars, uiVars>>
monoVars == <<m_macro, m_recording, m_playing, m_stop_play_event, m_rec_start_time,
              m_last_move_time, m_last_move_pos, m_status, m_worker, m_emitted,
              m_listener, m_ghost>>
vars == <<modVars, monoVars>>

\* The playback threads that can exist at once: main.play starts a new one
\* on every accepted request.
Workers == {1, 2}

IdleWorker == [pc |-> "idle", caller |-> "none", loops |-> 0, it |-> 0, speed |-> 0,
               jitter |-> 0, macro |-> NoMacro, n |-> 0, i |-> 0,
               waits |-> <<>>, waited |-> <<>>, on_status |-> "set_status"]

\* The Macro objects: the Recorder's first, then the Control Surface's.
MacroIds == 1..(MaxRecMacros + MaxLoadMacros)
LoadId(k) == MaxRecMacros + k

\* The playback threads of MacOSTinyTask.py that can exist at once.
m_Workers == 1..MaxMonoThreads

\* A playback thread of MacOSTinyTask.py that does not exist (yet).
m_IdleWorker == [pc |-> "idle", loops |-> 0, it |-> 0, speed |-> 0, jitter |-> 0,
                 nwaits |-> 0, events |-> <<>>, n |-> 0, i |-> 0]

\* A listener thread of MacOSTinyTask.py outside its callbacks.  In a callback:
\* stale says that the list the callback is about to append to is no longer
\* macro.events.
m_IdleListener == [pc |-> "idle", kind |-> "none", data |-> NoData, t |-> 0, stale |-> FALSE]

\* The paths chosen in the save dialog, the name of the document chosen in the
\* open dialog, a cancelled dialog, and a path nothing was written to.
SavePaths == {"saved.json"}
DocName == "macro.json"
NoPath == ""
NoFile == [absent |-> TRUE]

\* No loop iteration.
NoIt == -1

IdleListener == [pc |-> "idle", kind |-> "none", data |-> NoData, t |-> 0, list |-> NoMacro]

RECURSIVE SumLen(_, _)
SumLen(h, n) == IF n = 0 THEN 0 ELSE Len(h[n]) + SumLen(h, n - 1)

\* The events recorded so far, in all macros, and those on their way.
EventLoad == SumLen(heap, MaxRecMacros) + Cardinality({th \in Threads : listener[th].pc # "idle"})

\* History: every playback request that is running has now seen a stop
\* request, a change of the current macro or another playback request.
Dirty == [ghost EXCEPT !.dirty =
            [w \in Workers |-> ghost.dirty[w] \/ worker[w].pc \notin {"idle", "done"}]]

\* History: what the last call made on the recorder was, when it found
\* nothing to do.
Noted(what) == [ghost EXCEPT !.noop = what]

\* History: when a recording starts (fresh says that it does), whether a move
\* callback of the recording before it is still on its way.
Started(g, fresh) ==
    [g EXCEPT !.crossed = IF fresh
                          THEN listener[MouseThread].pc # "idle"
                                    /\ listener[MouseThread].kind = "move"
                          ELSE @]

Init ==
    /\ perf_counter = 0
    /\ heap = [id \in MacroIds |-> <<>>]
    /\ nrec = 1
    /\ nload = 1
    /\ clock_t0 = NoTime
    /\ rec_recording = FALSE
    /\ rec_macro = 1
    /\ rec_last_move_t = 0
    /\ rec_last_pos = NoPos
    /\ listener = [th \in Threads |-> IdleListener]
    /\ macro_ref = LoadId(1)
    /\ status = "Ready. Grant Accessibility & Input Monitoring."
    /\ player_playing = FALSE
    /\ player_stop_evt = FALSE
    /\ worker = [w \in Workers |-> IdleWorker]
    /\ emitted = [w \in Workers |-> <<>>]
    /\ ghost = [idle_stops |-> 0, stale |-> 0, call_stops |-> FALSE,
                stop_while_playing |-> FALSE, after_stop |-> 0,
                dirty |-> [w \in Workers |-> FALSE],
                noop |-> "none", crossed |-> FALSE, load |-> "none", doc |-> NoFile,
                saved |-> [path \in SavePaths |-> <<>>],
                raised |-> FALSE]
    /\ files = [path \in SavePaths |-> NoFile]
    /\ current_filename = "Ready"
    /\ ui_recording = FALSE
    /\ ui_playing = FALSE
    /\ m_macro = <<>>
    /\ m_recording = FALSE
    /\ m_playing = FALSE
    /\ m_stop_play_event = FALSE
    /\ m_rec_start_time = NoTime
    /\ m_last_move_time = 0
    /\ m_last_move_pos = NoPos
    /\ m_status = "Ready. Grant Accessibility & Input Monitoring."
    /\ m_worker = [w \in m_Workers |-> m_IdleWorker]
    /\ m_emitted = [w \in m_Workers |-> <<>>]
    /\ m_listener = [th \in Threads |-> m_IdleListener]
    /\ m_ghost = [dirty |-> [w \in m_Workers |-> FALSE],
                  changed |-> [w \in m_Workers |-> FALSE],
                  shared |-> [w \in m_Workers |-> FALSE],
                  stop_it |-> [w \in m_Workers |-> NoIt],
                  len0 |-> [w \in m_Workers |-> 0], load |-> "none", doc |-> NoFile]

\* ------------------------------------------------------------------ time
Tick ==
    /\ perf_counter < MaxTime
    /\ perf_counter' = perf_counter + 1
    /\ UNCHANGED <<monoVars, uiVars, heapVars, recVars, listener, macro_ref, status, playVars>>

\* --------------------------------------------------------------- Recorder
\* Recorder.start: a no-op while recording; else a fresh Macro, the clock
\* re-anchored, the throttle state reset.
Recorder_start ==
    IF rec_recording
    THEN UNCHANGED <<heapVars, recVars>>
    ELSE /\ nrec < MaxRecMacros
         /\ nrec' = nrec + 1
         /\ heap' = [heap EXCEPT ![nrec + 1] = <<>>]
         /\ UNCHANGED nload
         /\ rec_macro' = nrec + 1
         /\ clock_t0' = perf_counter
         /\ rec_last_move_t' = 0
         /\ rec_last_pos' = NoPos
         /\ rec_recording' = TRUE

\* Recorder.stop, were it to reset the throttle state as start does.
Recorder_stop_Resetting ==
    /\ rec_recording' = FALSE
    /\ rec_last_move_t' = 0
    /\ rec_last_pos' = NoPos
    /\ UNCHANGED <<heapVars, clock_t0, rec_macro>>

\* Recorder.stop.
Recorder_stop ==
    /\ rec_recording' = FALSE
    /\ UNCHANGED <<heapVars, clock_t0, rec_macro, rec_last_move_t, rec_last_pos>>

\* Recorder.start, called on the Recorder alone.
Recorder_start_call ==
    /\ Recorder_start
    /\ ghost' = Started(Noted(IF rec_recording THEN "start" ELSE "none"), ~rec_recording)
    /\ UNCHANGED <<monoVars, uiVars, perf_counter, listener, macro_ref, status,
                   player_playing, player_stop_evt, worker, emitted>>

\* Recorder.stop, called on the Recorder alone.
Recorder_stop_call ==
    /\ Recorder_stop
    /\ ghost' = Noted(IF rec_recording THEN "none" ELSE "stop")
    /\ UNCHANGED <<monoVars, uiVars, perf_counter, listener, macro_ref, status,
                   player_playing, player_stop_evt, worker, emitted>>

\* RecClock.now_rel, the value; its auto-start is in Stamp.
now_rel == IF clock_t0 = NoTime THEN 0 ELSE perf_counter - clock_t0

\* A callback without its first line: it goes on when not recording.
Enter_Unchecked(th, kind, data) ==
    /\ listener[th].pc = "idle"
    /\ EventLoad < MaxEvents
    /\ listener' = [listener EXCEPT ![th] =
            [pc |-> "stamp", kind |-> kind, data |-> data, t |-> 0, list |-> NoMacro]]
    /\ ghost' = IF rec_recording THEN ghost ELSE Noted("callback")
    /\ UNCHANGED <<monoVars, uiVars, perf_counter, heapVars, recVars, macro_ref, status,
                   player_playing, player_stop_evt, worker, emitted>>

\* The first line of a callback: return unless recording.
Enter(th, kind, data) ==
    /\ listener[th].pc = "idle"
    /\ EventLoad < MaxEvents
    /\ IF rec_recording
       THEN /\ listener' = [listener EXCEPT ![th] =
                    [pc |-> "stamp", kind |-> kind, data |-> data, t |-> 0, list |-> NoMacro]]
            /\ UNCHANGED ghost
       ELSE /\ UNCHANGED listener
            /\ ghost' = Noted("callback")
    /\ UNCHANGED <<monoVars, uiVars, perf_counter, heapVars, recVars, macro_ref, status,
                   player_playing, player_stop_evt, worker, emitted>>

\* Recorder._on_move, line 63.
on_move(x, y) == Enter(MouseThread, "move", [x |-> x, y |-> y])

\* Recorder._on_click, line 75.
on_click(x, y, button, pressed) ==
    Enter(MouseThread, "click",
          [x |-> x, y |-> y, button |-> button_to_str(button), pressed |-> pressed])

\* Recorder._on_scroll, line 83.
on_scroll(x, y, dx, dy) ==
    Enter(MouseThread, "scroll", [x |-> x, y |-> y, dx |-> dx, dy |-> dy])

\* Recorder._on_key_press / _on_key_release, lines 90 and 95: return unless
\* recording, and when the key is one of IGNORE_KEYS.
KeyFiltered(k) == k \in IGNORE_KEYS

on_key(kind, k) ==
    IF KeyFiltered(k)
    THEN /\ listener[KbdThread].pc = "idle"
         /\ UNCHANGED vars
    ELSE Enter(KbdThread, kind, [key |-> key_to_str(k)])

on_key_press(k) == on_key("kpress", k)

on_key_release(k) == on_key("krelease", k)

\* The callbacks with every kind of event sent through the move throttle.
Stamp_ThrottleAll(th) ==
    /\ listener[th].pc = "stamp"
    /\ clock_t0' = IF clock_t0 = NoTime THEN perf_counter ELSE clock_t0
    /\ listener' = [listener EXCEPT ![th] =
            [@ EXCEPT !.t = now_rel,
                      !.list = rec_macro,
                      !.pc = IF th = MouseThread THEN "throttle" ELSE "append"]]
    /\ UNCHANGED <<monoVars, uiVars, perf_counter, heapVars, rec_recording, rec_macro,
                   rec_last_move_t, rec_last_pos, macro_ref, status, playVars>>

\* self._now(): the callback reads the clock.  In _on_move this is the
\* statement t = self._now(); in the other callbacks it is an argument of
\* self.macro.events.append(...), evaluated after self.macro.events, so the
\* list the event will go to is already chosen.
Stamp(th) ==
    /\ listener[th].pc = "stamp"
    /\ clock_t0' = IF clock_t0 = NoTime THEN perf_counter ELSE clock_t0
    /\ listener' = [listener EXCEPT ![th] =
            [@ EXCEPT !.t = now_rel,
                      !.list = IF listener[th].kind = "move" THEN NoMacro ELSE rec_macro,
                      !.pc = IF listener[th].kind = "move" THEN "throttle" ELSE "append"]]
    /\ UNCHANGED <<monoVars, uiVars, perf_counter, heapVars, rec_recording, rec_macro,
                   rec_last_move_t, rec_last_pos, macro_ref, status, playVars>>

\* Recorder._on_move without lines 66-69: every move is recorded.
MoveThrottle_Off ==
    LET l == listener[MouseThread]
        pos == <<l.data.x, l.data.y>>
    IN /\ l.pc = "throttle"
       /\ rec_last_move_t' = l.t
       /\ rec_last_pos' = pos
       /\ listener' = [listener EXCEPT ![MouseThread].pc = "append"]
       /\ UNCHANGED <<monoVars, uiVars, perf_counter, heapVars, clock_t0, rec_recording, rec_macro,
                      macro_ref, status, playVars>>

\* Recorder._on_move, lines 66-71: the throttle.
MoveThrottle ==
    LET l == listener[MouseThread]
        pos == <<l.data.x, l.data.y>>
    IN /\ l.pc = "throttle"
       /\ IF (l.t - rec_last_move_t) < MoveMinInterval \/ rec_last_pos = pos
          THEN /\ listener' = [listener EXCEPT ![MouseThread] = IdleListener]
               /\ UNCHANGED <<rec_last_move_t, rec_last_pos>>
          ELSE /\ rec_last_move_t' = l.t
               /\ rec_last_pos' = pos
               /\ listener' = [listener EXCEPT ![MouseThread].pc = "append"]
       /\ UNCHANGED <<monoVars, uiVars, perf_counter, heapVars, clock_t0, rec_recording, rec_macro,
                      macro_ref, status, playVars>>

\* The list a callback appends to.
AppendTarget(l) == IF l.kind = "move" THEN rec_macro ELSE l.list

\* (...).events.append(Event(t, kind, data)).
AppendEvent(th) ==
    LET l == listener[th]
    IN /\ l.pc = "append"
       /\ heap' = [heap EXCEPT ![AppendTarget(l)] = Append(@, Event(l.t, l.kind, l.data))]
       /\ listener' = [listener EXCEPT ![th] = IdleListener]
       /\ ghost' = Noted("none")
       /\ UNCHANGED <<monoVars, uiVars, perf_counter, nrec, nload, recVars, macro_ref, status,
                      player_playing, player_stop_evt, worker, emitted>>

\* ------------------------------------------------------ main.py callbacks
\* (squelch() only sets _ignore_until, which nothing the recorder runs ever
\* reads.)
\* What the status label shows after a callback that called set_status(msg):
\* msg when the caller sets nothing after the callback, the caller's text else.
NoText == "(none)"
Said(msg, after) == IF after = NoText THEN msg ELSE after

\* main.start_rec, called by a caller that sets the status to after once it
\* has returned.  Recorder has neither ignore_keys nor set_key_filter, so
\* both hasattr branches are skipped.
start_rec_then(after) ==
    /\ IF player_playing
       THEN /\ status' = Said("Can't record during playback.", after)
            /\ UNCHANGED <<heapVars, recVars>>
       ELSE /\ Recorder_start
            /\ status' = Said("Recording... (F8 to stop)", after)
    /\ ghost' = Started(Noted("none"), ~player_playing /\ ~rec_recording)
    /\ UNCHANGED <<monoVars, files, current_filename, perf_counter, listener, macro_ref,
                   player_playing, player_stop_evt, worker, emitted>>

\* main.start_rec, as the record hotkey calls it.
start_rec == start_rec_then(NoText) /\ UNCHANGED toggleVars

\* main.stop_rec, called by a caller that sets the status to after.
stop_rec_then(after) ==
    /\ Recorder_stop
    /\ macro_ref' = rec_macro
    /\ status' = Said("Recorded {n} events.", after)
    /\ ghost' = [Dirty EXCEPT !.noop = "none"]
    /\ UNCHANGED <<monoVars, files, current_filename, perf_counter, listener, player_playing,
                   player_stop_evt, worker, emitted>>

\* main.stop_rec, as the record hotkey calls it.
stop_rec == stop_rec_then(NoText) /\ UNCHANGED toggleVars

\* AppUI._toggle_record: the Record button and the record key of the window.
\* The flag is flipped whatever the callback did.
AppUI_toggle_record ==
    /\ IF ui_recording
       THEN stop_rec_then("Recording stopped.")
       ELSE start_rec_then("Recording...")
    /\ ui_recording' = ~ui_recording
    /\ UNCHANGED ui_playing

\* ------------------------------------------------------------------ utils
StartsWith(s, prefix) == Len(s) >= Len(prefix) /\ SubSeq(s, 1, Len(prefix)) = prefix

\* s.split(sep, 1)[1] for an s that starts with a prefix ending in its first sep.
AfterPrefix(s, prefix) == SubSeq(s, Len(prefix) + 1, Len(s))

\* The member names of pynput's keyboard.Key that the model uses.
KeyNames == {<<"f", "3">>, <<"f", "4">>, <<"f", "6">>, <<"f", "7">>, <<"f", "8">>,
             <<"f", "9">>, <<"f", "1", "0">>, <<"f", "1", "1">>, <<"e", "s", "c">>,
             <<"s", "p", "a", "c", "e">>}

NoKey == [type |-> "none", v |-> <<>>]

\* utils.str_to_key: the character, the named key, or None.
str_to_key(s) ==
    IF StartsWith(s, Str_char) THEN [type |-> "char", v |-> AfterPrefix(s, Str_char)]
    ELSE IF StartsWith(s, Str_key)
    THEN LET name == AfterPrefix(s, Str_key)
         IN IF name \in KeyNames THEN [type |-> "named", v |-> name]
            ELSE IF StartsWith(name, Str_Key_dot) /\ AfterPrefix(name, Str_Key_dot) \in KeyNames
            THEN [type |-> "named", v |-> AfterPrefix(name, Str_Key_dot)]
            ELSE NoKey
    ELSE NoKey

\* utils.str_to_button.
str_to_button(s) ==
    CASE s = "left" -> Button_left
      [] s = "right" -> Button_right
      [] s = "middle" -> Button_middle
      [] OTHER -> Button_left

\* ----------------------------------------------------------------- Player
\* random.randint over a range one pixel too wide on each side.
JitterOffsets_Wide(jitter_px) ==
    IF jitter_px > 0 THEN (0 - jitter_px - 1)..(jitter_px + 1) ELSE {0}

\* random.randint(-jitter_px, jitter_px), drawn only when jitter_px > 0.
JitterOffsets(jitter_px) == IF jitter_px > 0 THEN (0 - jitter_px)..jitter_px ELSE {0}

\* d.get(field, default).
Get(d, field, default) == IF field \in DOMAIN d THEN d[field] ELSE default

\* What emitting event e does to the mouse and the keyboard controllers, with
\* the jitter offsets dx, dy drawn and key what the variant's parser of key
\* symbols made of a key event's symbol: Player.play, lines 54-85; play_once,
\* lines 200-237.
OutputWith(key, e, dx, dy) ==
    CASE e.kind = "move" ->
            <<[op |-> "position", x |-> e.data.x + dx, y |-> e.data.y + dy]>>
      [] e.kind = "click" ->
            <<[op |-> "position", x |-> e.data.x + dx, y |-> e.data.y + dy],
              [op |-> IF e.data.pressed THEN "press" ELSE "release",
               button |-> str_to_button(e.data.button)]>>
      [] e.kind = "scroll" ->
            <<[op |-> "scroll", dx |-> Get(e.data, "dx", 0), dy |-> Get(e.data, "dy", 0)]>>
      [] e.kind = "kpress" ->
            IF key = NoKey THEN <<>>
            ELSE <<[op |-> "key_press", key |-> key]>>
      [] e.kind = "krelease" ->
            IF key = NoKey THEN <<>>
            ELSE <<[op |-> "key_release", key |-> key]>>
      [] OTHER -> <<>>

\* Player.play, lines 54-85.
Output(e, dx, dy) ==
    OutputWith(IF e.kind \in {"kpress", "krelease"} THEN str_to_key(e.data.key) ELSE NoKey,
               e, dx, dy)

\* The payload fields that emitting an event of a kind reads with
\* e.data[...]: Player.play, lines 55, 62-64, 78 and 83 (a scroll reads its
\* fields with e.data.get).
Required(kind) ==
    CASE kind = "move" -> {"x", "y"}
      [] kind = "click" -> {"x", "y", "button", "pressed"}
      [] kind \in {"kpress", "krelease"} -> {"key"}
      [] OTHER -> {}

\* The platform rejects an operation: keyboard.Controller.press and release
\* raise for a character key that is not one character long.
Rejected(o) ==
    /\ o.op \in {"key_press", "key_release"}
    /\ o.key.type = "char"
    /\ Len(o.key.v) # 1

\* The operations done when the try block of lines 53-85 is left, and
\* whether it was left by an exception: a missing payload field raises before
\* any operation, a rejected operation after the operations before it.
Attempt(e, dx, dy) ==
    IF ~(Required(e.kind) \subseteq DOMAIN e.data)
    THEN [ops |-> <<>>, raised |-> TRUE]
    ELSE LET out == Output(e, dx, dy)
             bad == {k \in 1..Len(out) : Rejected(out[k])}
         IN IF bad = {} THEN [ops |-> out, raised |-> FALSE]
            ELSE [ops |-> SubSeq(out, 1, (CHOOSE k \in bad : \A j \in bad : k <= j) - 1),
                  raised |-> TRUE]

\* Player.stop.
Player_stop_evt_set == player_stop_evt' = TRUE

\* A worker that is not running.
Free(w) == worker[w].pc \in {"idle", "done"}

\* A thread that has ended keeps what it was asked for, how many events the
\* macro it played last had and where in it the last play() call ended.
Done(wk) == [IdleWorker EXCEPT !.pc = "done", !.caller = wk.caller, !.loops = wk.loops,
                              !.n = wk.n, !.i = wk.i]

\* Player.play returns to its caller: play.run, or a direct caller.
Return(wk) == IF wk.caller = "run" THEN [wk EXCEPT !.pc = "after_play"] ELSE Done(wk)

\* on_status(msg) in thread w raises: nothing in Player.play catches it, so the
\* call ends there, and with it the thread.
SinkRaises(w) == worker[w].on_status = "raising"

\* Player.play without lines 29-31: an empty macro is played like any other.
Player_play_enter_NoCheck(w) ==
    /\ worker[w].pc = "play"
    /\ worker' = [worker EXCEPT ![w].pc = "set_playing"]
    /\ UNCHANGED <<monoVars, uiVars, perf_counter, heapVars, recVars, listener, macro_ref,
                   status, player_playing, player_stop_evt, emitted, ghost>>

\* Player.play, lines 28-30.
Player_play_enter(w) ==
    /\ worker[w].pc = "play"
    /\ IF heap[worker[w].macro] = <<>>
       THEN /\ status' = IF SinkRaises(w) THEN status ELSE "Nothing to play."
            /\ worker' = [worker EXCEPT ![w] = IF SinkRaises(w) THEN Done(@) ELSE Return(@)]
       ELSE /\ worker' = [worker EXCEPT ![w].pc = "set_playing"]
            /\ UNCHANGED status
    /\ UNCHANGED <<monoVars, uiVars, perf_counter, heapVars, recVars, listener, macro_ref,
                   player_playing, player_stop_evt, emitted, ghost>>

\* Player.play, line 32.
Player_set_playing(w) ==
    /\ worker[w].pc = "set_playing"
    /\ player_playing' = TRUE
    /\ worker' = [worker EXCEPT ![w].pc = "clear"]
    /\ UNCHANGED <<monoVars, uiVars, perf_counter, heapVars, recVars, listener, macro_ref, status,
                   player_stop_evt, emitted, ghost>>

\* Player.play without line 33: the stop signal is not cleared.
Player_clear_Skipped(w) ==
    /\ worker[w].pc = "clear"
    /\ worker' = [worker EXCEPT ![w].pc = "begin"]
    /\ UNCHANGED <<monoVars, uiVars, perf_counter, heapVars, recVars, listener, macro_ref, status,
                   player_playing, player_stop_evt, emitted, ghost>>

\* Player.play, line 33.
Player_clear(w) ==
    /\ worker[w].pc = "clear"
    /\ player_stop_evt' = FALSE
    /\ worker' = [worker EXCEPT ![w].pc = "begin"]
    /\ UNCHANGED <<monoVars, uiVars, perf_counter, heapVars, recVars, listener, macro_ref, status,
                   player_playing, emitted, ghost>>

\* Speeds are counted in units of 1/SpeedOne, so that speed 1.0 is SpeedOne
\* and the floor 1e-6 of line 41 is SpeedFloor; times are counted in ticks.
SpeedOne == 2000000
SpeedFloor == 2
TicksPerSecond == 200

\* A duration in ticks, as a fraction in lowest terms.
RECURSIVE Gcd(_, _)
Gcd(a, b) == IF b = 0 THEN a ELSE Gcd(b, a % b)
Ratio(num, den) == [num |-> num \div Gcd(num, den), den |-> den \div Gcd(num, den)]
NoWait == [num |-> 0, den |-> 1]

Max(a, b) == IF a >= b THEN a ELSE b

\* Player.play, line 41 without max(0.0, ...): a wait can be negative.
Wait_Unclamped(prev, t, speed) ==
    Ratio((t - prev) * SpeedOne, Max(SpeedFloor, speed))

\* Player.play, line 41: dt = max(0.0, (e.t - prev) / max(1e-6, speed)).  The
\* divisor is positive, so the quotient has the sign of e.t - prev.
Wait(prev, t, speed) ==
    IF t - prev <= 0 THEN NoWait
    ELSE Ratio((t - prev) * SpeedOne, Max(SpeedFloor, speed))

\* Player.play, lines 38-43: one wait per event, prev starting at 0.0.
Waits(events, speed) ==
    [k \in 1..Len(events) |->
        Wait(IF k = 1 THEN 0 ELSE events[k - 1].t, events[k].t, speed)]

\* Player.play, lines 34-43: the status, and one wait per event of the macro.
Player_begin(w) ==
    /\ worker[w].pc = "begin"
    /\ IF SinkRaises(w)
       THEN /\ worker' = [worker EXCEPT ![w] = Done(@)]
            /\ UNCHANGED status
       ELSE /\ status' = "Playing... (ESC to stop)"
            /\ worker' = [worker EXCEPT ![w].pc = "check1",
                                        ![w].n = Len(heap[worker[w].macro]),
                                        ![w].i = 1,
                                        ![w].waits = Waits(heap[worker[w].macro], worker[w].speed),
                                        ![w].waited = <<>>]
    /\ UNCHANGED <<monoVars, uiVars, perf_counter, heapVars, recVars, listener, macro_ref,
                   player_playing, player_stop_evt, emitted, ghost>>

\* Player.play, lines 45-47: the next event, if any, and the check before
\* its wait.
Player_check1(w) ==
    /\ worker[w].pc = "check1"
    /\ worker' = [worker EXCEPT ![w].pc =
            IF worker[w].i > worker[w].n \/ player_stop_evt THEN "epilogue" ELSE "wait"]
    /\ UNCHANGED <<monoVars, uiVars, perf_counter, heapVars, recVars, listener, macro_ref, status,
                   player_playing, player_stop_evt, emitted, ghost>>

\* Player.play, line 49: _stop_evt.wait(timeout) returns when the event is
\* set or the timeout has passed.
Player_wait(w) ==
    /\ worker[w].pc = "wait"
    /\ worker' = [worker EXCEPT ![w].pc = "check2",
                                ![w].waited = Append(@, worker[w].waits[worker[w].i])]
    /\ UNCHANGED <<monoVars, uiVars, perf_counter, heapVars, recVars, listener, macro_ref, status,
                   player_playing, player_stop_evt, emitted, ghost>>

\* Player.play without lines 50-51: no check after the wait.
Player_check2_Skipped(w) ==
    /\ worker[w].pc = "check2"
    /\ worker' = [worker EXCEPT ![w].pc = "emit"]
    /\ UNCHANGED <<monoVars, uiVars, perf_counter, heapVars, recVars, listener, macro_ref, status,
                   player_playing, player_stop_evt, emitted, ghost>>

\* Player.play, lines 50-51: the check after the wait.
Player_check2(w) ==
    /\ worker[w].pc = "check2"
    /\ worker' = [worker EXCEPT ![w].pc = IF player_stop_evt THEN "epilogue" ELSE "emit"]
    /\ UNCHANGED <<monoVars, uiVars, perf_counter, heapVars, recVars, listener, macro_ref, status,
                   player_playing, player_stop_evt, emitted, ghost>>

\* Player.play with a loop that steps over the event after the one it emits.
Player_emit_Skipping(w) ==
    /\ worker[w].pc = "emit"
    /\ \E dx \in JitterOffsets(worker[w].jitter), dy \in JitterOffsets(worker[w].jitter) :
         LET att == Attempt(heap[worker[w].macro][worker[w].i], dx, dy)
         IN /\ emitted' = [emitted EXCEPT ![w] = Append(@,
                    [it |-> worker[w].it, i |-> worker[w].i, ops |-> att.ops,
                     raised |-> att.raised])]
            /\ status' = IF att.raised THEN "Playback error: {ex}" ELSE status
    /\ worker' = [worker EXCEPT ![w].pc = "check1", ![w].i = @ + 2]
    /\ ghost' = [ghost EXCEPT !.after_stop =
            IF ghost.stop_while_playing /\ @ < MaxEvents + 2 THEN @ + 1 ELSE @]
    /\ UNCHANGED <<monoVars, uiVars, perf_counter, heapVars, recVars, listener, macro_ref,
                   player_playing, player_stop_evt>>

\* Player.play without the try of lines 53 and 87-88: an exception raised
\* while an event is emitted ends the call.
Player_emit_Uncaught(w) ==
    /\ worker[w].pc = "emit"
    /\ \E dx \in JitterOffsets(worker[w].jitter), dy \in JitterOffsets(worker[w].jitter) :
         LET att == Attempt(heap[worker[w].macro][worker[w].i], dx, dy)
         IN /\ emitted' = [emitted EXCEPT ![w] = Append(@,
                    [it |-> worker[w].it, i |-> worker[w].i, ops |-> att.ops,
                     raised |-> att.raised])]
            /\ worker' = [worker EXCEPT ![w] =
                    IF att.raised THEN Done(@) ELSE [@ EXCEPT !.pc = "check1", !.i = @ + 1]]
    /\ ghost' = [ghost EXCEPT !.after_stop =
            IF ghost.stop_while_playing /\ @ < MaxEvents + 2 THEN @ + 1 ELSE @]
    /\ UNCHANGED <<monoVars, uiVars, perf_counter, heapVars, recVars, listener, macro_ref, status,
                   player_playing, player_stop_evt>>

\* Player.play, lines 53-88: emit event i; an exception is given to on_status
\* by the handler of line 87.
Player_emit(w) ==
    /\ worker[w].pc = "emit"
    /\ \E dx \in JitterOffsets(worker[w].jitter), dy \in JitterOffsets(worker[w].jitter) :
         LET att == Attempt(heap[worker[w].macro][worker[w].i], dx, dy)
         IN /\ emitted' = [emitted EXCEPT ![w] = Append(@,
                    [it |-> worker[w].it, i |-> worker[w].i, ops |-> att.ops,
                     raised |-> att.raised])]
            /\ status' = IF att.raised /\ ~SinkRaises(w) THEN "Playback error: {ex}" ELSE status
            /\ worker' = [worker EXCEPT ![w] =
                    IF att.raised /\ SinkRaises(w) THEN Done(@)
                    ELSE [@ EXCEPT !.pc = "check1", !.i = @ + 1]]
    /\ ghost' = [ghost EXCEPT !.after_stop =
            IF ghost.stop_while_playing /\ @ < MaxEvents + 2 THEN @ + 1 ELSE @]
    /\ UNCHANGED <<monoVars, uiVars, perf_counter, heapVars, recVars, listener, macro_ref,
                   player_playing, player_stop_evt>>

\* Player.play, line 90.
Player_epilogue(w) ==
    /\ worker[w].pc = "epilogue"
    /\ player_playing' = FALSE
    /\ worker' = [worker EXCEPT ![w].pc = "finished"]
    /\ UNCHANGED <<monoVars, uiVars, perf_counter, heapVars, recVars, listener, macro_ref, status,
                   player_stop_evt, emitted, ghost>>

\* Player.play, line 91.
Player_finished(w) ==
    /\ worker[w].pc = "finished"
    /\ status' = IF SinkRaises(w) THEN status ELSE "Playback finished."
    /\ worker' = [worker EXCEPT ![w] = IF SinkRaises(w) THEN Done(@) ELSE Return(@)]
    /\ UNCHANGED <<monoVars, uiVars, perf_counter, heapVars, recVars, listener, macro_ref,
                   player_playing, player_stop_evt, emitted, ghost>>

PlayerStep(w) ==
    \/ Player_play_enter(w)
    \/ Player_set_playing(w)
    \/ Player_clear(w)
    \/ Player_begin(w)
    \/ Player_check1(w)
    \/ Player_wait(w)
    \/ Player_check2(w)
    \/ Player_emit(w)
    \/ Player_epilogue(w)
    \/ Player_finished(w)

\* Player.stop, called on the Player alone.
Player_stop ==
    /\ worker[1].pc \notin {"idle", "done"} \/ ghost.idle_stops < MaxStops
    /\ Player_stop_evt_set
    /\ ghost' = IF Free(1)
                THEN [ghost EXCEPT !.idle_stops = @ + 1]
                ELSE [ghost EXCEPT !.call_stops = TRUE,
                                   !.stop_while_playing = @ \/ player_playing,
                                   !.after_stop = IF ghost.stop_while_playing THEN @ ELSE 0]
    /\ UNCHANGED <<monoVars, uiVars, perf_counter, heapVars, recVars, listener, macro_ref, status,
                   player_playing, worker, emitted>>

\* Player.play(macro_ref, speed, jitter, on_status), called on the Player
\* alone by a caller that waits for it to return.  on_status is the status
\* sink the caller passes: "set_status" shows the message, "raising" raises
\* whenever it is called.
Player_play_with(speed, jitter, on_status) ==
    /\ \A w \in Workers : Free(w)
    /\ worker' = [worker EXCEPT ![1] =
            [pc |-> "play", caller |-> "direct", loops |-> 1, it |-> 0, speed |-> speed,
             jitter |-> jitter, macro |-> macro_ref, n |-> 0, i |-> 0,
             waits |-> <<>>, waited |-> <<>>, on_status |-> on_status]]
    /\ emitted' = [emitted EXCEPT ![1] = <<>>]
    /\ ghost' = [ghost EXCEPT !.stale = ghost.idle_stops, !.idle_stops = 0,
                              !.call_stops = FALSE, !.stop_while_playing = FALSE,
                              !.after_stop = 0]
    /\ UNCHANGED <<monoVars, uiVars, perf_counter, heapVars, recVars, listener, macro_ref, status,
                   player_playing, player_stop_evt>>

\* Player.play(macro_ref, speed, jitter, set_status).
Player_play_call(speed, jitter) == Player_play_with(speed, jitter, "set_status")

\* ------------------------------------------------- main.py: play, stop_play
\* The thread slot a new playback thread takes.
FreeWorker == CHOOSE w \in Workers : Free(w) /\ \A v \in Workers : Free(v) => w <= v

\* main.play, called when the status label shows before: rejected while
\* recording or playing, else a thread running run().
play_from(speed, loops, jitter, before) ==
    /\ IF rec_recording
       THEN /\ status' = "Stop recording first."
            /\ UNCHANGED <<worker, emitted, ghost>>
       ELSE IF player_playing
       THEN /\ status' = "Already playing."
            /\ UNCHANGED <<worker, emitted, ghost>>
       ELSE /\ \E w \in Workers : Free(w)
            /\ worker' = [worker EXCEPT ![FreeWorker] =
                    [pc |-> "loop", caller |-> "run", loops |-> loops, it |-> 0,
                     speed |-> speed, jitter |-> jitter, macro |-> NoMacro, n |-> 0, i |-> 0,
                     waits |-> <<>>, waited |-> <<>>, on_status |-> "set_status"]]
            /\ emitted' = [emitted EXCEPT ![FreeWorker] = <<>>]
            /\ ghost' = [Dirty EXCEPT !.dirty[FreeWorker] = FALSE]
            /\ status' = before
    /\ UNCHANGED <<monoVars, files, current_filename, perf_counter, heapVars, recVars,
                   listener, macro_ref, player_playing, player_stop_evt>>

\* main.play, as a caller that leaves the status label alone calls it.
play(speed, loops, jitter) == play_from(speed, loops, jitter, status) /\ UNCHANGED toggleVars

\* play.run, lines 97-100: the head of the loop, and the call of
\* player.play(macro_ref, ...).
run_loop(w) ==
    /\ worker[w].pc = "loop"
    /\ worker' = [worker EXCEPT ![w] =
            IF worker[w].it >= worker[w].loops THEN Done(@)
            ELSE IF player_playing = FALSE /\ worker[w].it > 0 THEN Done(@)
            ELSE [@ EXCEPT !.pc = "play", !.macro = macro_ref]]
    /\ UNCHANGED <<monoVars, uiVars, perf_counter, heapVars, recVars, listener, macro_ref, status,
                   player_playing, player_stop_evt, emitted, ghost>>

\* play.run, lines 101-102.
run_after_play(w) ==
    /\ worker[w].pc = "after_play"
    /\ worker' = [worker EXCEPT ![w] =
            IF player_stop_evt THEN Done(@)
            ELSE [@ EXCEPT !.pc = "loop", !.it = @ + 1]]
    /\ UNCHANGED <<monoVars, uiVars, perf_counter, heapVars, recVars, listener, macro_ref, status,
                   player_playing, player_stop_evt, emitted, ghost>>

RunStep(w) ==
    \/ run_loop(w)
    \/ run_after_play(w)

\* main.stop_play, called by a caller that sets the status to after.
stop_play_then(after) ==
    /\ Player_stop_evt_set
    /\ status' = Said("Stopping playback...", after)
    /\ ghost' = Dirty
    /\ UNCHANGED <<monoVars, files, current_filename, perf_counter, heapVars, recVars,
                   listener, macro_ref, player_playing, worker, emitted>>

\* main.stop_play, as the Escape hotkey calls it.
stop_play == stop_play_then(NoText) /\ UNCHANGED toggleVars

\* The text of an entry field: the decimal text of a number, the empty text, or
\* a text that float() and int() reject.
Digits(n) == [number |-> n]
Blank == [blank |-> TRUE]
Letters == [letters |-> TRUE]
Parses(text) == "number" \in DOMAIN text

\* One field of AppUI._ensure_numeric_defaults: the number the text parses to,
\* as it is; the default when the conversion raises.
Ensured(text, default) == IF Parses(text) THEN text.number ELSE default

\* AppUI._ensure_numeric_defaults.
AppUI_ensure_numeric_defaults(speed_text, loops_text, jitter_text) ==
    [speed  |-> Ensured(speed_text, SpeedOne),
     loops  |-> Ensured(loops_text, 1),
     jitter |-> Ensured(jitter_text, 0)]

\* AppUI._toggle_play with the three fields as they stand: the Play button
\* and the play key of the window.  The flag is flipped whatever the
\* callback did.
AppUI_toggle_play(speed_text, loops_text, jitter_text) ==
    /\ IF ui_playing
       THEN stop_play_then("Playback stopped.")
       ELSE LET a == AppUI_ensure_numeric_defaults(speed_text, loops_text, jitter_text)
            IN  play_from(a.speed, a.loops, a.jitter, "Playing...")
    /\ ui_playing' = ~ui_playing
    /\ UNCHANGED ui_recording

\* text or default, then float() or int(): whether the conversion raises.
Raises(text) == text # Blank /\ ~Parses(text)

\* main._bindings, the global play hotkey: the lambda converts the three
\* fields outside any try, so a text that is no number raises in the hotkey
\* listener and play is never called.
hotkey_play(speed_text, loops_text, jitter_text) ==
    IF Raises(speed_text) \/ Raises(loops_text) \/ Raises(jitter_text)
    THEN /\ ghost' = [ghost EXCEPT !.raised = TRUE]
         /\ UNCHANGED <<monoVars, uiVars, perf_counter, heapVars, recVars, listener, macro_ref,
                        status, player_playing, player_stop_evt, worker, emitted>>
    ELSE play(Ensured(speed_text, SpeedOne), Ensured(loops_text, 1), Ensured(jitter_text, 0))


\* main.set_macro.
set_macro(m) == macro_ref' = m

\* ------------------------------------------------------------ documents
\* JSON values: a number, a string (its characters as json.dump writes them
\* between the quotes, or a word of the model taken whole), true or false.
JNum(n) == [j |-> "number", v |-> n]
JText(chars) == [j |-> "text", v |-> chars]
JWord(w) == [j |-> "word", v |-> w]
JBool(b) == [j |-> "bool", v |-> b]

\* json.dump of a str: a quote and a backslash are written after a backslash.
RECURSIVE Escape(_)
Escape(chars) ==
    IF chars = <<>> THEN <<>>
    ELSE (IF Head(chars) \in {"\"", "\\"} THEN <<"\\", Head(chars)>> ELSE <<Head(chars)>>)
            \o Escape(Tail(chars))

\* json.load of a str that takes every character as it is, a backslash too.
Unescape_None(chars) == chars

\* json.load of a str: the character after a backslash is taken as it is.
RECURSIVE Unescape(_)
Unescape(chars) ==
    IF chars = <<>> THEN <<>>
    ELSE IF Head(chars) = "\\" /\ Len(chars) >= 2
    THEN <<chars[2]>> \o Unescape(Tail(Tail(chars)))
    ELSE <<Head(chars)>> \o Unescape(Tail(chars))

\* json.dump of the value of a payload field, by the Python type the
\* recorder gives the field: a str for key and button, a bool for pressed, a
\* number for x, y, dx and dy.
EncodeValue(field, v) ==
    CASE field = "key" -> JText(Escape(v))
      [] field = "button" -> JWord(v)
      [] field = "pressed" -> JBool(v)
      [] OTHER -> JNum(v)

\* json.load of a value.
DecodeValue(jv) == IF jv.j = "text" THEN Unescape(jv.v) ELSE jv.v

\* AppUI._save, line 603: asdict(e) for each event, as json.dump writes it.
Serialize(events) ==
    [k \in 1..Len(events) |->
        [t |-> JNum(events[k].t),
         kind |-> JWord(events[k].kind),
         data |-> [f \in DOMAIN events[k].data |-> EncodeValue(f, events[k].data[f])]]]

\* AppUI._save, line 603: the payload.
Document(events) == [version |-> JNum(1), events |-> Serialize(events)]

\* A file that json.load cannot parse.
Malformed == [text |-> "{"]

\* AppUI._load, lines 609-611: json.load raises, or an event of the document
\* has no "t", no "kind" or no "data" (a document without "events" has none).
DocEvents(doc) == IF "events" \in DOMAIN doc THEN doc.events ELSE <<>>
LoadRaises(doc) ==
    \/ "text" \in DOMAIN doc
    \/ \E k \in 1..Len(DocEvents(doc)) : ~({"t", "kind", "data"} \subseteq DOMAIN DocEvents(doc)[k])

\* AppUI._load, line 611: Event(t=float(e["t"]), kind=e["kind"], data=e["data"]).
Deserialize(doc) ==
    [k \in 1..Len(DocEvents(doc)) |->
        Event(DecodeValue(DocEvents(doc)[k].t),
              DecodeValue(DocEvents(doc)[k].kind),
              [f \in DOMAIN DocEvents(doc)[k].data |-> DecodeValue(DocEvents(doc)[k].data[f])])]

\* History: how the last open dialog ended, and on which document.
Opened(g, how, doc) == [g EXCEPT !.load = how, !.doc = doc]

\* The events of a document that have "t", "kind" and "data".
Complete(doc) ==
    SelectSeq(DocEvents(doc), LAMBDA e : {"t", "kind", "data"} \subseteq DOMAIN e)

\* The events of a document before the first that lacks "t", "kind" or "data".
RECURSIVE Leading(_)
Leading(events) ==
    IF events = <<>> \/ ~({"t", "kind", "data"} \subseteq DOMAIN Head(events)) THEN <<>>
    ELSE <<Head(events)>> \o Leading(Tail(events))

\* AppUI._load with a loader that leaves out the events it cannot read and
\* installs the others.
AppUI_load_Skipping(path, doc) ==
    /\ nload < MaxLoadMacros
    /\ IF path = NoPath \/ "text" \in DOMAIN doc
       THEN /\ ghost' = Opened(ghost, IF path = NoPath THEN "cancelled" ELSE "raised", doc)
            /\ UNCHANGED <<nload, heap, macro_ref, status, current_filename>>
       ELSE /\ nload' = nload + 1
            /\ heap' = [heap EXCEPT ![LoadId(nload + 1)] =
                    Deserialize([events |-> Complete(doc)])]
            /\ set_macro(LoadId(nload + 1))
            /\ status' = "Loaded {I} events"
            /\ ghost' = Opened(Dirty, "installed", doc)
            /\ current_filename' = path
    /\ UNCHANGED <<monoVars, toggleVars, files, perf_counter, nrec, recVars, listener, player_playing,
                   player_stop_evt, worker, emitted>>

\* AppUI._load with a loader that appends to the current macro as it reads:
\* the events read before the exception stay.
AppUI_load_Partial(path, doc) ==
    /\ nload < MaxLoadMacros
    /\ IF path = NoPath \/ "text" \in DOMAIN doc
       THEN /\ ghost' = Opened(ghost, IF path = NoPath THEN "cancelled" ELSE "raised", doc)
            /\ UNCHANGED <<nload, heap, macro_ref, status, current_filename>>
       ELSE /\ nload' = nload + 1
            /\ heap' = [heap EXCEPT ![LoadId(nload + 1)] =
                    Deserialize([events |-> Leading(DocEvents(doc))])]
            /\ set_macro(LoadId(nload + 1))
            /\ IF LoadRaises(doc)
               THEN /\ ghost' = Opened(Dirty, "raised", doc)
                    /\ UNCHANGED <<status, current_filename>>
               ELSE /\ status' = "Loaded {I} events"
                    /\ ghost' = Opened(Dirty, "installed", doc)
                    /\ current_filename' = path
    /\ UNCHANGED <<monoVars, toggleVars, files, perf_counter, nrec, recVars, listener, player_playing,
                   player_stop_evt, worker, emitted>>

\* AppUI._load of the file at path (NoPath: the dialog was cancelled), whose
\* content is doc.
AppUI_load(path, doc) ==
    /\ nload < MaxLoadMacros
    /\ IF path = NoPath
       THEN /\ ghost' = Opened(ghost, "cancelled", doc)
            /\ UNCHANGED <<nload, heap, macro_ref, status, current_filename>>
       ELSE IF LoadRaises(doc)
       THEN /\ ghost' = Opened(ghost, "raised", doc)
            /\ UNCHANGED <<nload, heap, macro_ref, status, current_filename>>
       ELSE /\ nload' = nload + 1
            /\ heap' = [heap EXCEPT ![LoadId(nload + 1)] = Deserialize(doc)]
            /\ set_macro(LoadId(nload + 1))
            /\ status' = "Loaded {I} events"
            /\ ghost' = Opened(Dirty, "installed", doc)
            /\ current_filename' = path
    /\ UNCHANGED <<monoVars, toggleVars, files, perf_counter, nrec, recVars, listener, player_playing,
                   player_stop_evt, worker, emitted>>

\* AppUI._save with the path chosen in the dialog (NoPath: cancelled).
AppUI_save(path) ==
    /\ IF heap[macro_ref] = <<>>
       THEN /\ status' = "Nothing to save."
            /\ UNCHANGED <<uiVars, ghost>>
       ELSE IF path = NoPath
       THEN UNCHANGED <<status, uiVars, ghost>>
       ELSE /\ files' = [files EXCEPT ![path] = Document(heap[macro_ref])]
            /\ current_filename' = path
            /\ status' = "Saved {n} events"
            /\ ghost' = [ghost EXCEPT !.saved[path] = heap[macro_ref]]
    /\ UNCHANGED <<monoVars, toggleVars, perf_counter, heapVars, recVars, listener, macro_ref,
                   player_playing, player_stop_evt, worker, emitted>>

\* The documents that are opened.
Ev_move == Event(0, "move", [x |-> 0, y |-> 0])
Ev_press == Event(1, "click", [x |-> 0, y |-> 0, button |-> "left", pressed |-> TRUE])
Ev_release == Event(1, "click", [x |-> 0, y |-> 0, button |-> "left", pressed |-> FALSE])
Ev_at(t) == Event(t, "scroll", [x |-> 0, y |-> 0, dx |-> 0, dy |-> 1])
EverySecond == <<Ev_at(0), Ev_at(TicksPerSecond), Ev_at(2 * TicksPerSecond)>>
Backwards == <<Ev_at(1), Ev_at(0)>>
\* A click without its button, a key that is no key of the platform, a
\* character key of two characters; each followed by a healthy event.
Ev_nobutton == Event(0, "click", [x |-> 0, y |-> 0, pressed |-> TRUE])
Ev_nokey == Event(0, "kpress", [key |-> Str_key \o <<"n", "o">>])
Ev_twochars == Event(0, "kpress", [key |-> Str_char \o <<"a", "b">>])
Faulty == <<Ev_nobutton, Ev_twochars, Ev_press>>
Unresolved == <<Ev_nokey, Ev_press>>
LoadableMacros == {<<>>, <<Ev_press>>, <<Ev_move, Ev_press, Ev_release>>, EverySecond,
                   Backwards, Faulty, Unresolved}
AppMacros == {<<>>, <<Ev_press>>}

\* The documents of the file dialogs: macros with every kind of event and
\* with the key symbols key_to_str makes of a letter, of a quote, of a
\* backslash and of a named key; a file that is no JSON, a document without
\* "events", events without "t", without "kind", with a kind that is none of
\* the five, and with a field no version of the program writes.
Ev_key(kind, k) == Event(1, kind, [key |-> key_to_str(k)])
FileMacros == {<<Ev_move, Ev_press, Ev_at(2)>>,
               <<Ev_key("kpress", KeyChar("f")), Ev_key("krelease", Key_f3)>>,
               <<Ev_key("kpress", KeyChar("\"")), Ev_key("kpress", KeyChar("\\"))>>}
Doc_NoEvents == [version |-> JNum(1)]
Doc_NoT == [version |-> JNum(1),
            events |-> <<Serialize(<<Ev_move>>)[1],
                         [kind |-> JWord("move"), data |-> [x |-> JNum(0), y |-> JNum(0)]]>>]
Doc_NoKind == [version |-> JNum(1),
               events |-> <<[t |-> JNum(0), data |-> [x |-> JNum(0), y |-> JNum(0)]]>>]
Doc_UnknownKind == [version |-> JNum(1),
                    events |-> <<Serialize(<<Ev_move>>)[1],
                                 [t |-> JNum(1), kind |-> JWord("drag"),
                                  data |-> [x |-> JNum(0), y |-> JNum(0)]]>>]
Doc_Extra == [version |-> JNum(2),
              events |-> <<[t |-> JNum(0), kind |-> JWord("move"), id |-> JNum(7),
                            data |-> [x |-> JNum(0), y |-> JNum(0)]]>>]
BadDocuments == {Malformed, Doc_NoT, Doc_NoKind}
Documents == {Document(evs) : evs \in FileMacros}
                \cup {Doc_NoEvents, Doc_UnknownKind, Doc_Extra} \cup BadDocuments

\* The play parameters that are requested: of Player.play by a direct
\* caller, and of main.play.
Speeds == {SpeedOne, 2 * SpeedOne, 1, 0, -SpeedOne}
AppSpeeds == {SpeedOne}
PlaySpeeds == {SpeedOne, 0}
Loops == {1, 2}
Jitters == {0}
PlayerJitters == {0, 1}
JitterMacros == {<<Ev_move, Ev_at(0)>>, <<Ev_press, Ev_twochars>>}

\* ------------------------------------------------------- the input stream
Input ==
    \/ \E p \in Positions : on_move(p[1], p[2])
    \/ \E p \in ClickPositions, b \in Buttons, pressed \in BOOLEAN :
            on_click(p[1], p[2], b, pressed)
    \/ \E p \in ClickPositions, d \in ScrollDeltas : on_scroll(p[1], p[2], d[1], d[2])
    \/ \E k \in Keys : on_key_press(k)
    \/ \E k \in Keys : on_key_release(k)

ListenerStep ==
    \/ \E th \in Threads : Stamp(th)
    \/ MoveThrottle
    \/ \E th \in Threads : AppendEvent(th)

NextRec ==
    \/ Tick
    \/ start_rec
    \/ stop_rec
    \/ Recorder_start_call
    \/ Recorder_stop_call
    \/ Input
    \/ ListenerStep

SpecRec == Init /\ [][NextRec]_vars

\* The Player alone: one caller of play() at a time, stop() at any moment.
NextPlayer ==
    \/ \E evs \in LoadableMacros  :
            nload < MaxPlayLoads /\ AppUI_load(DocName, Document(evs))
    \/ \E path \in SavePaths \cup {NoPath} : AppUI_save(path)
    \/ \E speed \in Speeds, jitter \in Jitters : Player_play_call(speed, jitter)
    \/ Player_stop
    \/ PlayerStep(1)

SpecPlayer == Init /\ [][NextPlayer]_vars

\* The Player alone, played with and without jitter.
NextJitter ==
    \/ \E evs \in JitterMacros  :
            nload < MaxPlayLoads /\ AppUI_load(DocName, Document(evs))
    \/ \E jitter \in PlayerJitters : Player_play_call(SpeedOne, jitter)
    \/ Player_stop
    \/ PlayerStep(1)

SpecJitter == Init /\ [][NextJitter]_vars

\* The Control Surface of the modular variant.
Next ==
    \/ start_rec
    \/ stop_rec
    \/ \E speed \in AppSpeeds, loops \in Loops, jitter \in Jitters : play(speed, loops, jitter)
    \/ stop_play
    \/ \E evs \in AppMacros  :
            nload < MaxPlayLoads /\ AppUI_load(DocName, Document(evs))
    \/ \E w \in Workers : PlayerStep(w)
    \/ \E w \in Workers : RunStep(w)

Spec == Init /\ [][Next]_vars

\* The playback half of the Control Surface, with the speeds the speed field
\* can hold (AppUI._ensure_numeric_defaults accepts every number).
NextPlay ==
    \/ \E speed \in PlaySpeeds, loops \in Loops, jitter \in Jitters : play(speed, loops, jitter)
    \/ stop_play
    \/ \E evs \in AppMacros  :
            nload < MaxPlayLoads /\ AppUI_load(DocName, Document(evs))
    \/ \E w \in Workers : PlayerStep(w)
    \/ \E w \in Workers : RunStep(w)

SpecPlay == Init /\ [][NextPlay]_vars

\* The Player alone, called with a status sink that works and with one that
\* raises.  The thread that runs Player.play is scheduled again and again, and
\* every wait of Player.play has a finite timeout.
StatusSinks == {"set_status", "raising"}
SinkMacros == {<<Ev_press>>, Faulty}

NextSink ==
    \/ \E evs \in SinkMacros :
            nload < MaxPlayLoads /\ AppUI_load(DocName, Document(evs))
    \/ \E on_status \in StatusSinks : Player_play_with(SpeedOne, 0, on_status)
    \/ Player_stop
    \/ PlayerStep(1)

SpecSink == Init /\ [][NextSink]_vars /\ WF_vars(PlayerStep(1))

\* Clicks of every button recorded by the Recorder, and the recording played
\* by the Player: main.start_rec and main.stop_rec around the click callbacks,
\* then Player.play on the macro stop_rec has made current.
NextClick ==
    \/ start_rec
    \/ stop_rec
    \/ \E p \in ClickPositions, b \in AllButtons, pressed \in BOOLEAN :
            on_click(p[1], p[2], b, pressed)
    \/ Stamp(MouseThread)
    \/ AppendEvent(MouseThread)
    \/ Player_play_call(SpeedOne, 0)
    \/ PlayerStep(1)

SpecClick == Init /\ [][NextClick]_vars

\* Keys of every sort recorded by the Recorder, and the recording played by
\* the Player: a character key, a named key, and a key the platform reports
\* as a bare key code, with neither a character nor a name.
RecordableKeys == {KeyChar("a"), Key_f3, KeyCodeOnly(<<"6", "3">>)}

NextKeys ==
    \/ start_rec
    \/ stop_rec
    \/ \E k \in RecordableKeys : on_key_press(k)
    \/ \E k \in RecordableKeys : on_key_release(k)
    \/ Stamp(KbdThread)
    \/ AppendEvent(KbdThread)
    \/ Player_play_call(SpeedOne, 0)
    \/ PlayerStep(1)

SpecKeys == Init /\ [][NextKeys]_vars

\* The Player alone on well-formed macros: every press of a button or of a
\* key is followed by its release.
WellFormedMacros == {<<Ev_move, Ev_press, Ev_release>>,
                     <<Ev_key("kpress", KeyChar("a")), Ev_key("krelease", KeyChar("a"))>>}

NextHeld ==
    \/ \E evs \in WellFormedMacros :
            nload < MaxPlayLoads /\ AppUI_load(DocName, Document(evs))
    \/ Player_play_call(SpeedOne, 0)
    \/ Player_stop
    \/ PlayerStep(1)

SpecHeld == Init /\ [][NextHeld]_vars

\* The Control Surface as its user drives it: the two toggle buttons, the
\* global hotkeys, and the three entry fields holding what the user typed.
SpeedTexts == {Digits(SpeedOne), Letters}
LoopsTexts == {Digits(1), Digits(0)}
JitterTexts == {Digits(0), Blank}

NextUI ==
    \/ AppUI_toggle_record
    \/ \E speed_text \in SpeedTexts, loops_text \in LoopsTexts, jitter_text \in JitterTexts :
            AppUI_toggle_play(speed_text, loops_text, jitter_text)
    \/ \E speed_text \in SpeedTexts, loops_text \in LoopsTexts, jitter_text \in JitterTexts :
            hotkey_play(speed_text, loops_text, jitter_text)
    \/ \E evs \in AppMacros :
            nload < MaxPlayLoads /\ AppUI_load(DocName, Document(evs))
    \/ \E w \in Workers : PlayerStep(w)
    \/ \E w \in Workers : RunStep(w)

SpecUI == Init /\ [][NextUI]_vars

\* ====================================================== MacOSTinyTask.py
\* The same application in one file, on module globals.  Its callbacks run on
\* the control threads; start_playback spawns a thread running run().

m_recVars == <<m_recording, m_rec_start_time, m_last_move_time, m_last_move_pos>>

\* A playback thread that is not running.
m_Free(w) == m_worker[w].pc \in {"idle", "done"}

\* A playback thread that is inside play_once, past its first statement.
m_InPlayOnce(w) == m_worker[w].pc \notin {"idle", "done", "loop", "play"}

\* A thread that has ended keeps the loop count it was started with.
m_Done(wk) == [m_IdleWorker EXCEPT !.pc = "done", !.loops = wk.loops]

\* History: every playback thread that is running has now seen a stop request
\* or a change of the macro.
m_Dirty == [m_ghost EXCEPT !.dirty = [w \in m_Workers |-> m_ghost.dirty[w] \/ ~m_Free(w)]]

\* History: every playback thread that is running has now seen a change of
\* the macro.
m_Changed == [m_Dirty EXCEPT !.changed = [w \in m_Workers |-> m_ghost.changed[w] \/ ~m_Free(w)]]

\* _str_to_key: the character, the named key, or None.
m_str_to_key(s) ==
    IF StartsWith(s, Str_char) THEN [type |-> "char", v |-> AfterPrefix(s, Str_char)]
    ELSE IF StartsWith(s, Str_key)
    THEN LET name == AfterPrefix(s, Str_key)
         IN IF StartsWith(name, Str_Key_dot) /\ AfterPrefix(name, Str_Key_dot) \in KeyNames
            THEN [type |-> "named", v |-> AfterPrefix(name, Str_Key_dot)]
            ELSE NoKey
    ELSE NoKey

\* play_once, lines 200-237.
m_Output(e, dx, dy) ==
    OutputWith(IF e.kind \in {"kpress", "krelease"} THEN m_str_to_key(e.data.key) ELSE NoKey,
               e, dx, dy)

\* macro = Macro(...): a callback that has already taken macro.events for its
\* append keeps the list of the Macro that was replaced.
m_Orphaned ==
    [th \in Threads |->
        IF m_listener[th].pc = "append" /\ m_listener[th].kind # "move"
        THEN [m_listener[th] EXCEPT !.stale = TRUE]
        ELSE m_listener[th]]

\* start_recording.
m_start_recording ==
    /\ IF m_playing
       THEN /\ m_status' = "Can't record during playback."
            /\ UNCHANGED <<m_macro, m_recVars, m_listener, m_ghost>>
       ELSE /\ m_macro' = <<>>
            /\ m_listener' = m_Orphaned
            /\ m_rec_start_time' = perf_counter
            /\ m_last_move_time' = 0
            /\ m_last_move_pos' = NoPos
            /\ m_recording' = TRUE
            /\ m_status' = "Recording... (F8 to stop)"
            /\ m_ghost' = m_Changed
    /\ UNCHANGED <<modVars, m_playing, m_stop_play_event, m_worker, m_emitted>>

\* stop_recording.
m_stop_recording ==
    /\ m_recording' = FALSE
    /\ m_status' = "Recorded {n} events."
    /\ UNCHANGED <<modVars, m_macro, m_playing, m_stop_play_event, m_rec_start_time,
                   m_last_move_time, m_last_move_pos, m_worker, m_emitted, m_listener,
                   m_ghost>>

\* load_macro of the file at path (NoPath: the dialog was cancelled), whose
\* content is doc.
m_load_macro(path, doc) ==
    /\ IF path = NoPath
       THEN /\ m_ghost' = Opened(m_ghost, "cancelled", doc)
            /\ UNCHANGED <<m_macro, m_listener, m_status>>
       ELSE IF LoadRaises(doc)
       THEN /\ m_ghost' = Opened(m_ghost, "raised", doc)
            /\ UNCHANGED <<m_macro, m_listener, m_status>>
       ELSE /\ m_macro' = Deserialize(doc)
            /\ m_listener' = m_Orphaned
            /\ m_status' = "Loaded {n} events from {file}."
            /\ m_ghost' = Opened(m_Changed, "installed", doc)
    /\ UNCHANGED <<modVars, m_recVars, m_playing, m_stop_play_event, m_worker, m_emitted>>

\* The thread slot a new playback thread takes.
m_FreeWorker == CHOOSE w \in m_Workers : m_Free(w) /\ \A v \in m_Workers : m_Free(v) => w <= v

\* start_playback, with the texts of the three entry fields already parsed
\* (lines 246-257): the clamps, the two rejections, the thread.
m_start_playback(speed_in, loops_in, jitter_in) ==
    LET loops == IF loops_in < 1 THEN 1 ELSE loops_in
        speed == IF speed_in <= 0 THEN SpeedOne ELSE speed_in
        jitter == IF jitter_in < 0 THEN 0 ELSE jitter_in
        others == \E v \in m_Workers : ~m_Free(v)
    IN /\ IF m_recording
          THEN /\ m_status' = "Stop recording first."
               /\ UNCHANGED <<m_worker, m_emitted, m_ghost>>
          ELSE IF m_playing
          THEN /\ m_status' = "Already playing."
               /\ UNCHANGED <<m_worker, m_emitted, m_ghost>>
          ELSE /\ \E w \in m_Workers : m_Free(w)
               /\ m_worker' = [m_worker EXCEPT ![m_FreeWorker] =
                       [m_IdleWorker EXCEPT !.pc = "loop", !.loops = loops,
                                            !.speed = speed, !.jitter = jitter]]
               /\ m_emitted' = [m_emitted EXCEPT ![m_FreeWorker] = <<>>]
               /\ m_ghost' = [m_ghost EXCEPT
                       !.dirty[m_FreeWorker] = FALSE,
                       !.changed[m_FreeWorker] = FALSE,
                       !.shared = [w \in m_Workers |->
                            IF w = m_FreeWorker THEN others
                            ELSE m_ghost.shared[w] \/ ~m_Free(w)],
                       !.stop_it[m_FreeWorker] = NoIt,
                       !.len0[m_FreeWorker] = Len(m_macro)]
               /\ UNCHANGED m_status
       /\ UNCHANGED <<modVars, m_macro, m_recVars, m_playing, m_stop_play_event, m_listener>>

\* stop_playback.
m_stop_playback ==
    /\ m_stop_play_event' = TRUE
    /\ m_status' = "Stopping playback..."
    /\ m_ghost' = [m_Dirty EXCEPT !.stop_it = [w \in m_Workers |->
            IF m_ghost.stop_it[w] # NoIt THEN m_ghost.stop_it[w]
            ELSE IF m_InPlayOnce(w) THEN m_worker[w].it
            ELSE IF m_worker[w].pc = "loop" /\ m_worker[w].it >= 1 THEN m_worker[w].it - 1
            ELSE NoIt]]
    /\ UNCHANGED <<modVars, m_macro, m_recVars, m_playing, m_worker, m_emitted, m_listener>>

\* What a step of a playback thread leaves alone besides its own fields.
m_StepFrame == <<modVars, m_macro, m_recVars, m_listener>>

\* run, lines 274-277: the head of the loop, the stop check, the call.
m_run_loop(w) ==
    /\ m_worker[w].pc = "loop"
    /\ m_worker' = [m_worker EXCEPT ![w] =
            IF m_worker[w].it >= m_worker[w].loops THEN m_Done(@)
            ELSE IF m_stop_play_event THEN m_Done(@)
            ELSE [@ EXCEPT !.pc = "play"]]
    /\ UNCHANGED <<m_StepFrame, m_playing, m_stop_play_event, m_status, m_emitted, m_ghost>>

\* play_once returns to run.
m_Return(wk) == [wk EXCEPT !.pc = "loop", !.it = @ + 1, !.nwaits = 0, !.events = <<>>,
                           !.n = 0, !.i = 0]

\* play_once, lines 176-178.
m_play_once_enter(w) ==
    /\ m_worker[w].pc = "play"
    /\ IF m_macro = <<>>
       THEN /\ m_status' = "Nothing to play. Record or load a macro first."
            /\ m_worker' = [m_worker EXCEPT ![w] = m_Return(@)]
       ELSE /\ m_worker' = [m_worker EXCEPT ![w].pc = "set_playing"]
            /\ UNCHANGED m_status
    /\ UNCHANGED <<m_StepFrame, m_playing, m_stop_play_event, m_emitted, m_ghost>>

\* play_once, line 180.
m_set_playing(w) ==
    /\ m_worker[w].pc = "set_playing"
    /\ m_playing' = TRUE
    /\ m_worker' = [m_worker EXCEPT ![w].pc = "clear"]
    /\ UNCHANGED <<m_StepFrame, m_stop_play_event, m_status, m_emitted, m_ghost>>

\* play_once, line 181.
m_clear(w) ==
    /\ m_worker[w].pc = "clear"
    /\ m_stop_play_event' = FALSE
    /\ m_worker' = [m_worker EXCEPT ![w].pc = "waits"]
    /\ UNCHANGED <<m_StepFrame, m_playing, m_status, m_emitted, m_ghost>>

\* play_once, lines 182-189: the status, and one wait per event of the macro.
m_waits(w) ==
    /\ m_worker[w].pc = "waits"
    /\ m_status' = "Playing... (ESC to stop)"
    /\ m_worker' = [m_worker EXCEPT ![w].pc = "zip", ![w].nwaits = Len(m_macro)]
    /\ UNCHANGED <<m_StepFrame, m_playing, m_stop_play_event, m_emitted, m_ghost>>

\* Min(a, b).
Min(a, b) == IF a <= b THEN a ELSE b

\* play_once, line 191: zip(macro.events, waits) ends with the shorter.
m_zip(w) ==
    /\ m_worker[w].pc = "zip"
    /\ m_worker' = [m_worker EXCEPT ![w].pc = "check1",
                                    ![w].events = m_macro,
                                    ![w].n = Min(Len(m_macro), m_worker[w].nwaits),
                                    ![w].i = 1]
    /\ UNCHANGED <<m_StepFrame, m_playing, m_stop_play_event, m_status, m_emitted, m_ghost>>

\* play_once, lines 191-193: the next event, if any, and the check before
\* its wait.
m_check1(w) ==
    /\ m_worker[w].pc = "check1"
    /\ m_worker' = [m_worker EXCEPT ![w].pc =
            IF m_worker[w].i > m_worker[w].n \/ m_stop_play_event THEN "epilogue" ELSE "wait"]
    /\ UNCHANGED <<m_StepFrame, m_playing, m_stop_play_event, m_status, m_emitted, m_ghost>>

\* play_once, lines 194-195: _sleep_interval returns when the event is set or
\* the time has passed.
m_wait(w) ==
    /\ m_worker[w].pc = "wait"
    /\ m_worker' = [m_worker EXCEPT ![w].pc = "check2"]
    /\ UNCHANGED <<m_StepFrame, m_playing, m_stop_play_event, m_status, m_emitted, m_ghost>>

\* play_once, lines 196-197: the check after the wait.
m_check2(w) ==
    /\ m_worker[w].pc = "check2"
    /\ m_worker' = [m_worker EXCEPT ![w].pc = IF m_stop_play_event THEN "epilogue" ELSE "emit"]
    /\ UNCHANGED <<m_StepFrame, m_playing, m_stop_play_event, m_status, m_emitted, m_ghost>>

\* play_once, lines 199-240: emit event i.
m_emit(w) ==
    /\ m_worker[w].pc = "emit"
    /\ \E dx \in JitterOffsets(m_worker[w].jitter), dy \in JitterOffsets(m_worker[w].jitter) :
         m_emitted' = [m_emitted EXCEPT ![w] = Append(@,
            [it |-> m_worker[w].it, i |-> m_worker[w].i,
             ops |-> m_Output(m_worker[w].events[m_worker[w].i], dx, dy)])]
    /\ m_worker' = [m_worker EXCEPT ![w].pc = "check1", ![w].i = @ + 1]
    /\ UNCHANGED <<m_StepFrame, m_playing, m_stop_play_event, m_status, m_ghost>>

\* play_once, line 242.
m_epilogue(w) ==
    /\ m_worker[w].pc = "epilogue"
    /\ m_playing' = FALSE
    /\ m_worker' = [m_worker EXCEPT ![w].pc = "finished"]
    /\ UNCHANGED <<m_StepFrame, m_stop_play_event, m_status, m_emitted, m_ghost>>

\* play_once, line 243.
m_finished(w) ==
    /\ m_worker[w].pc = "finished"
    /\ m_status' = "Playback finished."
    /\ m_worker' = [m_worker EXCEPT ![w] = m_Return(@)]
    /\ UNCHANGED <<m_StepFrame, m_playing, m_stop_play_event, m_emitted, m_ghost>>

m_WorkerStep(w) ==
    \/ m_run_loop(w)
    \/ m_play_once_enter(w)
    \/ m_set_playing(w)
    \/ m_clear(w)
    \/ m_waits(w)
    \/ m_zip(w)
    \/ m_check1(w)
    \/ m_wait(w)
    \/ m_check2(w)
    \/ m_emit(w)
    \/ m_epilogue(w)
    \/ m_finished(w)

\* ------------------------------------------ MacOSTinyTask.py: the listeners
\* _key_to_str.
m_key_to_str(k) == IF k.char # NoStr THEN Str_char \o k.char ELSE Str_key \o k.repr

\* _now_rel, with perf_counter() counted from its first reading.
m_now_rel == IF m_rec_start_time = NoTime THEN 0 ELSE perf_counter - m_rec_start_time

\* The events recorded so far and those on their way.
m_EventLoad == Len(m_macro) + Cardinality({th \in Threads : m_listener[th].pc # "idle"})

m_ListenerFrame == <<modVars, m_recording, m_playing, m_stop_play_event, m_status,
                     m_worker, m_emitted, m_ghost>>

\* The first line of a callback: return unless recording.
m_Enter(th, kind, data) ==
    /\ m_listener[th].pc = "idle"
    /\ m_EventLoad < MaxEvents
    /\ IF m_recording
       THEN m_listener' = [m_listener EXCEPT ![th] =
                [pc |-> "stamp", kind |-> kind, data |-> data, t |-> 0, stale |-> FALSE]]
       ELSE UNCHANGED m_listener
    /\ UNCHANGED <<m_ListenerFrame, m_macro, m_rec_start_time, m_last_move_time,
                   m_last_move_pos>>

\* on_move, line 127.
m_on_move(x, y) == m_Enter(MouseThread, "move", [x |-> x, y |-> y])

\* on_click, line 140.
m_on_click(x, y, button, pressed) ==
    m_Enter(MouseThread, "click",
            [x |-> x, y |-> y, button |-> button_to_str(button), pressed |-> pressed])

\* on_scroll, line 146.
m_on_scroll(x, y, dx, dy) ==
    m_Enter(MouseThread, "scroll", [x |-> x, y |-> y, dx |-> dx, dy |-> dy])

\* on_key_press / on_key_release, lines 152-155 and 159-162: the callback goes
\* on when recording and the key is not one of IGNORE_KEYS.
m_on_key(kind, k) ==
    /\ m_listener[KbdThread].pc = "idle"
    /\ m_EventLoad < MaxEvents
    /\ IF m_recording /\ k \notin IGNORE_KEYS
       THEN m_listener' = [m_listener EXCEPT ![KbdThread] =
                [pc |-> "stamp", kind |-> kind, data |-> [key |-> m_key_to_str(k)],
                 t |-> 0, stale |-> FALSE]]
       ELSE UNCHANGED m_listener
    /\ UNCHANGED <<m_ListenerFrame, m_macro, m_rec_start_time, m_last_move_time,
                   m_last_move_pos>>

m_on_key_press(k) == m_on_key("kpress", k)

m_on_key_release(k) == m_on_key("krelease", k)

\* _now_rel() in a callback.  In on_move it is the statement t = _now_rel();
\* in the others it is an argument of macro.events.append(...), evaluated
\* after macro.events.
m_Stamp(th) ==
    /\ m_listener[th].pc = "stamp"
    /\ m_listener' = [m_listener EXCEPT ![th] =
            [@ EXCEPT !.t = m_now_rel,
                      !.pc = IF m_listener[th].kind = "move" THEN "throttle" ELSE "append"]]
    /\ UNCHANGED <<m_ListenerFrame, m_macro, m_rec_start_time, m_last_move_time,
                   m_last_move_pos>>

\* on_move, lines 131-136: the throttle.  The time of the last move is
\* updated before the position is compared.
m_MoveThrottle ==
    LET l == m_listener[MouseThread]
        pos == <<l.data.x, l.data.y>>
    IN /\ l.pc = "throttle"
       /\ IF (l.t - m_last_move_time) < MoveMinInterval
          THEN /\ m_listener' = [m_listener EXCEPT ![MouseThread] = m_IdleListener]
               /\ UNCHANGED <<m_last_move_time, m_last_move_pos>>
          ELSE IF m_last_move_pos = pos
          THEN /\ m_last_move_time' = l.t
               /\ m_listener' = [m_listener EXCEPT ![MouseThread] = m_IdleListener]
               /\ UNCHANGED m_last_move_pos
          ELSE /\ m_last_move_time' = l.t
               /\ m_last_move_pos' = pos
               /\ m_listener' = [m_listener EXCEPT ![MouseThread].pc = "append"]
       /\ UNCHANGED <<m_ListenerFrame, m_macro, m_rec_start_time>>

\* (...).append(Event(t, kind, data)): to macro.events, or to the list of a
\* Macro that was replaced meanwhile.
m_AppendEvent(th) ==
    LET l == m_listener[th]
    IN /\ l.pc = "append"
       /\ m_macro' = IF l.stale THEN m_macro ELSE Append(m_macro, Event(l.t, l.kind, l.data))
       /\ m_listener' = [m_listener EXCEPT ![th] = m_IdleListener]
       /\ UNCHANGED <<m_ListenerFrame, m_rec_start_time, m_last_move_time, m_last_move_pos>>

\* toggle_recording.
m_toggle_recording == IF m_recording THEN m_stop_recording ELSE m_start_recording

m_Input ==
    \/ \E p \in Positions : m_on_move(p[1], p[2])
    \/ \E p \in ClickPositions, b \in Buttons, pressed \in BOOLEAN :
            m_on_click(p[1], p[2], b, pressed)
    \/ \E p \in ClickPositions, d \in ScrollDeltas : m_on_scroll(p[1], p[2], d[1], d[2])
    \/ \E k \in Keys : m_on_key_press(k)
    \/ \E k \in Keys : m_on_key_release(k)

m_ListenerStep ==
    \/ \E th \in Threads : m_Stamp(th)
    \/ m_MoveThrottle
    \/ \E th \in Threads : m_AppendEvent(th)

\* The recording side of MacOSTinyTask.py.
NextMonoRec ==
    \/ Tick
    \/ m_start_recording
    \/ m_stop_recording
    \/ m_toggle_recording
    \/ m_Input
    \/ m_ListenerStep

SpecMonoRec == Init /\ [][NextMonoRec]_vars

\* The two recorders side by side, given the same move callbacks at the same
\* times during one recording: both start at the same reading of the clock,
\* each callback is delivered to MacOSTinyTask.py and then to the Recorder,
\* both read the clock before it advances, and the next callback comes when
\* both have returned.
BothIdle == listener[MouseThread].pc = "idle" /\ m_listener[MouseThread].pc = "idle"

NextBoth ==
    \/ BothIdle /\ rec_recording = m_recording /\ Tick
    \/ ~rec_recording /\ ~m_recording /\ Recorder_start_call
    \/ rec_recording /\ ~m_recording /\ m_start_recording
    \/ \E p \in Positions :
            BothIdle /\ rec_recording /\ m_recording /\ m_on_move(p[1], p[2])
    \/ \E p \in Positions :
            /\ m_listener[MouseThread].pc = "stamp"
            /\ m_listener[MouseThread].data = [x |-> p[1], y |-> p[2]]
            /\ on_move(p[1], p[2])
    \/ listener[MouseThread].pc = "stamp" /\ m_Stamp(MouseThread)
    \/ m_listener[MouseThread].pc # "stamp" /\ Stamp(MouseThread)
    \/ m_MoveThrottle
    \/ MoveThrottle
    \/ m_AppendEvent(MouseThread)
    \/ AppendEvent(MouseThread)

SpecBoth == Init /\ [][NextBoth]_vars

\* The documents that are opened, and the values of the three entry fields.
MonoMacros == {<<>>, <<Ev_press>>, <<Ev_move, Ev_press>>}
SpeedInputs == {0, SpeedOne}
LoopInputs == {0, 1, 2}
JitterInputs == {-1, 0}

NextMono ==
    \/ m_start_recording
    \/ m_stop_recording
    \/ \E evs \in MonoMacros : m_load_macro(DocName, Document(evs))
    \/ \E speed \in SpeedInputs, loops \in LoopInputs, jitter \in JitterInputs :
            m_start_playback(speed, loops, jitter)
    \/ m_stop_playback
    \/ \E w \in m_Workers : m_WorkerStep(w)

SpecMono == Init /\ [][NextMono]_vars

\* The file dialogs of the two variants.
NextFiles ==
    \/ \E doc \in Documents : AppUI_load(DocName, doc)
    \/ \E path \in SavePaths : files[path] # NoFile /\ AppUI_load(path, files[path])
    \/ AppUI_load(NoPath, NoFile)
    \/ \E path \in SavePaths \cup {NoPath} : AppUI_save(path)
    \/ \E doc \in Documents : m_load_macro(DocName, doc)
    \/ m_load_macro(NoPath, NoFile)

SpecFiles == Init /\ [][NextFiles]_vars

\* ================================================================ claims

\* C1: the recorder is never recording while the player is playing.
C1_NeverRecordingWhilePlaying == ~(rec_recording /\ player_playing)

\* C2: once Recorder.stop() has returned (the recorder is not recording, and
\* this step does not start it), no event is appended to the recorder's macro.
C2_NoAppendAfterStop ==
    [][(~rec_recording /\ ~rec_recording') => heap'[rec_macro'] = heap[rec_macro]]_vars

\* C3: the timestamps of the recorder's macro never decrease.
C3_Monotone ==
    \A k \in 1..(Len(heap[rec_macro]) - 1) : heap[rec_macro][k].t <= heap[rec_macro][k + 1].t

\* C4: no press or release of a key that the Control Surface binds as a hotkey
\* is in the recorder's macro.
C4_ControlKeysNotRecorded ==
    \A k \in DOMAIN heap[rec_macro] :
        heap[rec_macro][k].kind \in {"kpress", "krelease"}
            => heap[rec_macro][k].data.key \notin {key_to_str(c) : c \in get_control_keys}

\* The play() call is at one of its two stop checks for a pending event, and
\* the stop signal is set.
C5_StopSeen == /\ worker[1].pc \in {"check1", "check2"}
               /\ worker[1].i <= worker[1].n
               /\ player_stop_evt

\* C5: when play() finds the stop signal set at the check before or after the
\* wait of event i, it leaves the loop without emitting; after the loop is left
\* at event i exactly the events before i have been emitted, in order; and
\* play() returns with playing = False.
C5_StopAtCheckEndsPlay ==
    /\ [][(C5_StopSeen /\ worker'[1] # worker[1])
            => /\ worker'[1].pc = "epilogue"
               /\ worker'[1].i = worker[1].i
               /\ emitted' = emitted]_vars
    /\ [](worker[1].pc \in {"epilogue", "finished", "done"} /\ worker[1].i >= 1
            => /\ Len(emitted[1]) = worker[1].i - 1
               /\ \A k \in DOMAIN emitted[1] : emitted[1][k].i = k)
    /\ [](worker[1].pc \in {"finished", "done"} => ~player_playing)

\* C5, its case: play() has returned after a stop seen at the second or the
\* third of three events, the earlier ones emitted.
C5_Witness ==
    /\ worker[1].pc = "done"
    /\ worker[1].n = 3
    /\ worker[1].i \in {2, 3}
    /\ Len(emitted[1]) = worker[1].i - 1
    /\ ~player_playing

\* C6: after a stop() called while playing is True, the running play() emits at
\* most one further event.
C6_StopNeverLost == ghost.stop_while_playing => ghost.after_stop <= 1

\* C7: a play request with loops = N on a non-empty macro, with no stop request
\* and no change of the macro, has emitted every event N times when it ends.
C7_PlaysLoopsTimes ==
    \A w \in Workers :
        (worker[w].pc = "done" /\ worker[w].caller = "run" /\ worker[w].n > 0 /\ ~ghost.dirty[w])
            => \A i \in 1..worker[w].n :
                  Cardinality({k \in DOMAIN emitted[w] : emitted[w][k].i = i}) = worker[w].loops

\* C10: with no play() call in progress playing is False, whatever stop() calls
\* were made; and a play() of a non-empty macro during which stop() is not
\* called emits every event of the macro, however many stop() calls came before.
C10_IdleStopsHarmless ==
    /\ (\A w \in Workers : Free(w)) => ~player_playing
    /\ (worker[1].pc = "done" /\ worker[1].n > 0 /\ ~ghost.call_stops)
            => /\ Len(emitted[1]) = worker[1].n
               /\ \A k \in DOMAIN emitted[1] : emitted[1][k].i = k

\* C10, its case: two stop() calls while idle, then a play() of three events
\* that has returned with all three emitted.
C10_Witness ==
    /\ worker[1].pc = "done"
    /\ ghost.stale = 2
    /\ ~ghost.call_stops
    /\ worker[1].n = 3
    /\ Len(emitted[1]) = 3
    /\ ~player_playing

\* C8: when stop_playback() is called after play_once of iteration N was
\* entered and before iteration N+1 begins, the thread (the only playback
\* thread alive, the macro left as it was) emits no event in iteration N+1.
C8_StopPreventsNextIteration ==
    \A w \in m_Workers :
        (m_ghost.stop_it[w] # NoIt /\ ~m_ghost.shared[w] /\ ~m_ghost.changed[w])
            => \A k \in DOMAIN m_emitted[w] : m_emitted[w][k].it # m_ghost.stop_it[w] + 1

\* C9: a playback thread started on a non-empty macro while not recording,
\* alone, with no stop request and no change of the macro while it ran, has
\* emitted every event of the macro when it ends, whatever stop_playback()
\* calls came before it was started.
C9_StopBeforePlaybackHarmless ==
    \A w \in m_Workers :
        (m_worker[w].pc = "done" /\ m_ghost.len0[w] > 0
                /\ ~m_ghost.dirty[w] /\ ~m_ghost.shared[w])
            => \A i \in 1..m_ghost.len0[w] : \E k \in DOMAIN m_emitted[w] : m_emitted[w][k].i = i

\* C11: Recorder.start() called while recording, and Recorder.stop() called
\* while idle, leave the macro, the clock anchor, the throttle state and the
\* recording flag as they were.
C11_ReentrantCallsAreNoOps ==
    /\ [][(rec_recording /\ Recorder_start_call) => UNCHANGED <<heapVars, recVars>>]_vars
    /\ [][(~rec_recording /\ Recorder_stop_call) => UNCHANGED <<heapVars, recVars>>]_vars

\* C11, its case: start() was just called on a recorder that was recording
\* and had recorded an event, which is still there.
C11_Witness ==
    /\ ghost.noop = "start"
    /\ rec_recording
    /\ Len(heap[rec_macro]) > 0

\* C12: start_recording() called while already recording leaves the events
\* recorded so far, the recording start time and the move-throttle state as
\* they were.
C12_StartWhileRecordingNoOp ==
    [][(m_recording /\ m_start_recording)
        => UNCHANGED <<m_macro, m_rec_start_time, m_last_move_time, m_last_move_pos>>]_vars

\* C13: a Recorder callback invoked while the recorder is not recording
\* returns at once and leaves the macro, the throttle state and the clock as
\* they were.
C13_CallbacksIdleNoOp ==
    [][(~rec_recording /\ Input) => UNCHANGED <<heapVars, recVars, listener>>]_vars

\* C13, its case: a callback was just invoked on a recorder that is not
\* recording and holds a recorded event.
C13_Witness ==
    /\ ghost.noop = "callback"
    /\ ~rec_recording
    /\ Len(heap[rec_macro]) > 0

\* The move events of the recorder's macro, in the order recorded.
C14_Moves == SelectSeq(heap[rec_macro], LAMBDA e : e.kind = "move")

\* C14: in a recording that no move callback of an earlier recording reached,
\* two consecutive recorded moves are at least move_min_interval apart and
\* at different positions.
C14_MovesThrottled ==
    ~ghost.crossed =>
        \A k \in 1..(Len(C14_Moves) - 1) :
            /\ C14_Moves[k + 1].t - C14_Moves[k].t >= MoveMinInterval
            /\ C14_Moves[k + 1].data # C14_Moves[k].data

\* C14, its case: two moves were recorded in one recording.
C14_Witness == ~ghost.crossed /\ Len(C14_Moves) = 2

\* A listener thread is in a click or a scroll callback and takes a step.
C15_Step(th) ==
    /\ listener[th].kind \in {"click", "scroll"}
    /\ listener[th].pc # "idle"
    /\ listener'[th] # listener[th]

\* C15: while recording, a click or a scroll callback goes on past its first
\* line; from there it reads the clock and appends exactly one event, of its
\* kind and with its payload, to the macro it took, whatever the time, the
\* position and the move-throttle state are; and it leaves the move-throttle
\* state as it was.
C15_ClickScrollRecordedOnce ==
    /\ [][\A p \in ClickPositions, b \in Buttons, pressed \in BOOLEAN :
            (rec_recording /\ on_click(p[1], p[2], b, pressed))
                => /\ listener'[MouseThread].pc = "stamp"
                   /\ listener'[MouseThread].kind = "click"
                   /\ listener'[MouseThread].data =
                        [x |-> p[1], y |-> p[2], button |-> button_to_str(b),
                         pressed |-> pressed]]_vars
    /\ [][\A p \in ClickPositions, d \in ScrollDeltas :
            (rec_recording /\ on_scroll(p[1], p[2], d[1], d[2]))
                => /\ listener'[MouseThread].pc = "stamp"
                   /\ listener'[MouseThread].kind = "scroll"
                   /\ listener'[MouseThread].data =
                        [x |-> p[1], y |-> p[2], dx |-> d[1], dy |-> d[2]]]_vars
    /\ [][\A th \in Threads : C15_Step(th) =>
            /\ UNCHANGED <<rec_last_move_t, rec_last_pos>>
            /\ listener[th].pc = "stamp" =>
                    /\ listener'[th].pc = "append"
                    /\ listener'[th].kind = listener[th].kind
                    /\ listener'[th].data = listener[th].data
                    /\ listener'[th].list = rec_macro
                    /\ heap' = heap
            /\ listener[th].pc = "append" =>
                    /\ listener'[th] = IdleListener
                    /\ heap' = [heap EXCEPT ![listener[th].list] =
                            Append(@, Event(listener[th].t, listener[th].kind,
                                            listener[th].data))]]_vars

\* C15, its case: two clicks at the same position and with the same timestamp
\* are both in the macro, and no move has been recorded.
C15_Witness ==
    /\ Len(heap[rec_macro]) = 2
    /\ heap[rec_macro][1].kind = "click"
    /\ heap[rec_macro][2].kind = "click"
    /\ heap[rec_macro][1].t = heap[rec_macro][2].t
    /\ heap[rec_macro][1].data.x = heap[rec_macro][2].data.x
    /\ heap[rec_macro][1].data.y = heap[rec_macro][2].data.y
    /\ rec_last_pos = NoPos

\* C16: Player.play on a macro with no events reports "Nothing to play." and
\* returns, emitting nothing and leaving playing and the stop signal as they
\* were; AppUI._save on a macro with no events reports "Nothing to save." and
\* writes nothing.
C16_EmptyMacroAborts ==
    /\ [][\A w \in Workers :
            (worker[w].pc = "play" /\ heap[worker[w].macro] = <<>> /\ worker'[w] # worker[w])
                => /\ status' = "Nothing to play."
                   /\ worker'[w].pc \in {"done", "after_play"}
                   /\ UNCHANGED <<player_playing, player_stop_evt, emitted, heapVars,
                                  macro_ref, uiVars>>]_vars
    /\ [][\A path \in SavePaths \cup {NoPath} :
            (heap[macro_ref] = <<>> /\ AppUI_save(path))
                => /\ status' = "Nothing to save."
                   /\ UNCHANGED <<uiVars, heapVars, macro_ref, playVars>>]_vars

\* C16, its case: play() of an empty macro has returned with its message,
\* nothing emitted, playing False and the stop signal, set before, still set.
C16_Witness ==
    /\ worker[1].pc = "done"
    /\ heap[macro_ref] = <<>>
    /\ status = "Nothing to play."
    /\ emitted[1] = <<>>
    /\ ~player_playing
    /\ player_stop_evt

\* The waits of one Player.play call as the description gives them:
\* max(0, (t_i - t_{i-1}) / speed), the predecessor of the first event at 0.
C17_Described(events, speed) ==
    [k \in 1..Len(events) |->
        LET prev == IF k = 1 THEN 0 ELSE events[k - 1].t
        IN IF events[k].t - prev <= 0 THEN NoWait
           ELSE Ratio((events[k].t - prev) * SpeedOne, speed)]

\* The timeouts a play() call in progress has passed to _stop_evt.wait are
\* the first described waits, for the speeds in S.
C17_WaitsFor(S) ==
    \A w \in Workers :
        (worker[w].pc \in {"check1", "wait", "check2", "emit", "epilogue"}
                /\ worker[w].speed \in S)
            => /\ Len(worker[w].waited) <= Len(heap[worker[w].macro])
               /\ \A k \in 1..Len(worker[w].waited) :
                    worker[w].waited[k]
                        = C17_Described(heap[worker[w].macro], worker[w].speed)[k]

C17_WitnessBackwards ==
    /\ worker[1].pc = "epilogue"
    /\ heap[worker[1].macro] = Backwards
    /\ Len(worker[1].waited) = 2
    /\ Len(emitted[1]) = 2

\* C18: a play request of main.play with speed <= 0 is rejected or played
\* as at speed 1.0: the timeouts Player.play passes to _stop_evt.wait are the
\* waits computed for speed 1.0.
C18_NonPositiveSpeedIsOne ==
    \A w \in Workers :
        (worker[w].caller = "run" /\ worker[w].speed <= 0
                /\ worker[w].pc \in {"check1", "wait", "check2", "emit", "epilogue"})
            => \A k \in 1..Len(worker[w].waited) :
                    worker[w].waited[k] = Waits(heap[worker[w].macro], SpeedOne)[k]

\* What the Player.play call that worker w is in has emitted so far.
C19_Emitted(w) == SelectSeq(emitted[w], LAMBDA r : r.it = worker[w].it)

\* C19: within one Player.play call the events emitted so far are the first
\* events of macro.events, each once and in the order of the list, and an
\* event is emitted only when its own wait and the emissions of all events
\* before it have finished.
C19_EmittedInMacroOrder ==
    \A w \in Workers :
        worker[w].pc \in {"check1", "wait", "check2", "emit", "epilogue", "finished"}
            => /\ Len(C19_Emitted(w)) <= Len(heap[worker[w].macro])
               /\ Len(C19_Emitted(w)) = worker[w].i - 1
               /\ \A k \in 1..Len(C19_Emitted(w)) :
                    /\ C19_Emitted(w)[k].i = k
                    /\ \E dx \in JitterOffsets(worker[w].jitter),
                          dy \in JitterOffsets(worker[w].jitter) :
                            C19_Emitted(w)[k].ops = Attempt(heap[worker[w].macro][k], dx, dy).ops
               /\ worker[w].pc \in {"check2", "emit"} => Len(worker[w].waited) = worker[w].i
               /\ worker[w].pc \in {"check1", "wait"}
                    => Len(worker[w].waited) = worker[w].i - 1

\* C19, its case: a play() call has emitted all three events of a macro.
C19_Witness ==
    /\ worker[1].pc = "finished"
    /\ Len(heap[worker[1].macro]) = 3
    /\ heap[worker[1].macro][1] # heap[worker[1].macro][2]
    /\ Len(C19_Emitted(1)) = 3

\* C20: the last status Player.play sends tells a cancelled call from a
\* completed one: a call that left its loop because the stop signal was set
\* does not end with the status of a call that emitted every event.
C20_StoppedIsNotFinished ==
    [][\A w \in Workers :
            (worker[w].pc = "finished" /\ worker'[w].pc # "finished"
                    /\ worker[w].i <= worker[w].n)
                => status' # "Playback finished."]_vars

\* C21: an exception raised while event i is emitted is caught: a
\* 'Playback error' status is sent and the loop goes on to event i + 1, so
\* that a call no stop request was made during attempts every event.
C21_ErrorsDoNotAbort ==
    /\ [][\A w \in Workers :
            (worker[w].pc = "emit" /\ worker'[w] # worker[w]
                    /\ \A dx \in JitterOffsets(worker[w].jitter),
                          dy \in JitterOffsets(worker[w].jitter) :
                            Attempt(heap[worker[w].macro][worker[w].i], dx, dy).raised)
                => /\ status' = "Playback error: {ex}"
                   /\ worker'[w].pc = "check1"
                   /\ worker'[w].i = worker[w].i + 1
                   /\ UNCHANGED <<player_playing, player_stop_evt>>]_vars
    /\ [](\A w \in Workers :
            (worker[w].pc = "finished" /\ worker[w].caller = "direct" /\ ~ghost.call_stops)
                => Len(C19_Emitted(w)) = Len(heap[worker[w].macro]))

\* C21, its case: a call has ended in which the first two events raised, one
\* for a missing field and one rejected by the platform, and the third was
\* emitted.
C21_Witness ==
    /\ worker[1].pc = "finished"
    /\ heap[worker[1].macro] = Faulty
    /\ ~ghost.call_stops
    /\ Len(emitted[1]) = 3
    /\ emitted[1][1].raised /\ emitted[1][2].raised
    /\ ~emitted[1][3].raised /\ Len(emitted[1][3].ops) = 2

\* C22: when Player.play comes to a kpress or krelease event whose key
\* symbol str_to_key cannot resolve, it reports a per-event error through
\* the status sink (and goes on to the other events).
C22_UnresolvedKeyReported ==
    [][\A w \in Workers :
            (/\ worker[w].pc = "emit" /\ worker'[w] # worker[w]
             /\ heap[worker[w].macro][worker[w].i].kind \in {"kpress", "krelease"}
             /\ "key" \in DOMAIN heap[worker[w].macro][worker[w].i].data
             /\ str_to_key(heap[worker[w].macro][worker[w].i].data.key) = NoKey)
                => /\ status' = "Playback error: {ex}"
                   /\ worker'[w].pc = "check1"
                   /\ worker'[w].i = worker[w].i + 1]_vars

C23_Abs(n) == IF n < 0 THEN 0 - n ELSE n

\* C23: with jitter_px = j >= 0, the x and the y that Player.play emits for
\* a move or a click are each within j of the recorded value (equal to it
\* when j = 0), a click presses or releases the recorded button, and scroll
\* and key events are emitted with their recorded payload.
C23_JitterBounded ==
    \A w \in Workers :
        (worker[w].pc \in {"check1", "wait", "check2", "emit", "epilogue", "finished"}
                /\ worker[w].jitter >= 0)
            => \A k \in 1..Len(C19_Emitted(w)) :
                LET e == heap[worker[w].macro][k]
                    out == C19_Emitted(w)[k]
                IN ~out.raised =>
                    IF e.kind \in {"move", "click"}
                    THEN /\ out.ops[1].op = "position"
                         /\ C23_Abs(out.ops[1].x - e.data.x) <= worker[w].jitter
                         /\ C23_Abs(out.ops[1].y - e.data.y) <= worker[w].jitter
                         /\ e.kind = "click" =>
                                out.ops[2] = [op |-> IF e.data.pressed THEN "press"
                                                     ELSE "release",
                                              button |-> str_to_button(e.data.button)]
                         /\ Len(out.ops) = IF e.kind = "click" THEN 2 ELSE 1
                    ELSE out.ops = Output(e, 0, 0)

\* C23, its case: at jitter 1 a move was emitted one pixel off in x and in y,
\* and a scroll was emitted as recorded.
C23_Witness ==
    /\ worker[1].jitter = 1
    /\ worker[1].pc = "finished"
    /\ \E k \in 1..Len(emitted[1]) :
            /\ heap[worker[1].macro][k].kind = "move"
            /\ emitted[1][k].ops[1].x = heap[worker[1].macro][k].data.x + 1
            /\ emitted[1][k].ops[1].y = heap[worker[1].macro][k].data.y - 1

\* C23, its other case: at jitter 1 a scroll was emitted as recorded.
C23_WitnessScroll ==
    /\ worker[1].jitter = 1
    /\ worker[1].pc = "finished"
    /\ \E k \in 1..Len(emitted[1]) :
            /\ heap[worker[1].macro][k].kind = "scroll"
            /\ emitted[1][k].ops = <<[op |-> "scroll", dx |-> 0, dy |-> 1]>>

C25_Texts == {<<"a">>, <<":">>, <<"f", "3">>, <<"e", "s", "c">>, Str_key \o <<"f", "3">>,
              Str_Key_dot \o <<"f", "3">>}
C25_CharKeys == {[char |-> c, name |-> NoStr, repr |-> <<"'">> \o c \o <<"'">>] : c \in C25_Texts}
C25_NamedKeys == {KeyNamed(n) : n \in KeyNames}

\* C25: key_to_str gives a character key and a named key different strings,
\* whatever the text of the character key, and str_to_key makes of the string
\* of a character key its text and of the string of a named key that key;
\* so for _key_to_str and _str_to_key, and so for every key event recorded.
C25_KeySymbolsUnambiguous ==
    /\ \A c \in C25_CharKeys, n \in C25_NamedKeys :
            /\ key_to_str(c) # key_to_str(n)
            /\ m_key_to_str(c) # m_key_to_str(n)
    /\ \A c \in C25_CharKeys :
            /\ str_to_key(key_to_str(c)) = [type |-> "char", v |-> c.char]
            /\ m_str_to_key(m_key_to_str(c)) = [type |-> "char", v |-> c.char]
    /\ \A n \in C25_NamedKeys :
            /\ str_to_key(key_to_str(n)) = [type |-> "named", v |-> n.name]
            /\ m_str_to_key(m_key_to_str(n)) = [type |-> "named", v |-> n.name]
    /\ \A m \in MacroIds : \A i \in 1..Len(heap[m]) :
            heap[m][i].kind \in {"kpress", "krelease"}
                => \E k \in Keys :
                    /\ heap[m][i].data.key = key_to_str(k)
                    /\ str_to_key(heap[m][i].data.key)
                        = IF k.char # NoStr THEN [type |-> "char", v |-> k.char]
                          ELSE [type |-> "named", v |-> k.name]

\* C25, its case: a character key and a named key were recorded.
C25_Witness ==
    \E m \in MacroIds :
        /\ Len(heap[m]) = 2
        /\ heap[m][1].kind \in {"kpress", "krelease"}
        /\ heap[m][2].kind \in {"kpress", "krelease"}
        /\ str_to_key(heap[m][1].data.key).type = "char"
        /\ str_to_key(heap[m][2].data.key).type = "named"

\* A document one of whose events has no "t" or no "kind".
C26_LacksRequired(doc) ==
    /\ "text" \notin DOMAIN doc
    /\ \E k \in 1..Len(DocEvents(doc)) : ~({"t", "kind"} \subseteq DOMAIN DocEvents(doc)[k])

\* C26: AppUI._load of a document with an event that has no "t" or no "kind"
\* ends with an exception and installs no macro; and so does load_macro.
C26_MissingFieldFails ==
    /\ [][\A doc \in Documents :
            (C26_LacksRequired(doc) /\ AppUI_load(DocName, doc))
                => /\ ghost'.load = "raised"
                   /\ UNCHANGED <<heap, nload, macro_ref, status, uiVars>>]_vars
    /\ [][\A doc \in Documents :
            (C26_LacksRequired(doc) /\ m_load_macro(DocName, doc))
                => /\ m_ghost'.load = "raised"
                   /\ UNCHANGED <<m_macro, m_status>>]_vars

\* C26, its case: with a macro loaded, a document whose second event has no
\* "t" was opened.
C26_Witness ==
    /\ ghost.load = "raised"
    /\ ghost.doc = Doc_NoT
    /\ Len(heap[macro_ref]) >= 2

\* C27: AppUI._load of a document with an event whose kind is none of move,
\* click, scroll, kpress and krelease ends with an exception and installs no
\* macro.
C27_UnknownKindFails ==
    [][\A doc \in Documents :
            (/\ "text" \notin DOMAIN doc
             /\ \E k \in 1..Len(DocEvents(doc)) :
                    /\ "kind" \in DOMAIN DocEvents(doc)[k]
                    /\ DocEvents(doc)[k].kind.v
                            \notin {"move", "click", "scroll", "kpress", "krelease"}
             /\ AppUI_load(DocName, doc))
                => /\ ghost'.load = "raised"
                   /\ UNCHANGED <<heap, nload, macro_ref, status, uiVars>>]_vars

\* C28: a load either installs the whole macro of the document or leaves the
\* current macro as it was: after a load that ended with an exception (a
\* file that is no JSON, an event without a required field) macro_ref, the
\* Macro objects and the global macro are what they were before.
C28_LoadIsAtomic ==
    /\ [][\A doc \in Documents :
            AppUI_load(DocName, doc)
                => \/ /\ ghost'.load = "installed"
                      /\ heap'[macro_ref'] = Deserialize(doc)
                      /\ Len(heap'[macro_ref']) = Len(DocEvents(doc))
                      /\ \A m \in MacroIds \ {macro_ref'} : heap'[m] = heap[m]
                   \/ /\ ghost'.load = "raised"
                      /\ UNCHANGED <<heap, nload, macro_ref>>]_vars
    /\ [][\A doc \in Documents :
            m_load_macro(DocName, doc)
                => \/ /\ m_ghost'.load = "installed"
                      /\ m_macro' = Deserialize(doc)
                   \/ /\ m_ghost'.load = "raised"
                      /\ UNCHANGED m_macro]_vars
    /\ [](ghost.load = "raised" => LoadRaises(ghost.doc))

\* C28, its case: with a macro loaded, a file that is no JSON was opened.
C28_Witness ==
    /\ ghost.load = "raised"
    /\ ghost.doc = Malformed
    /\ Len(heap[macro_ref]) >= 2
    /\ m_ghost.load = "raised"
    /\ Len(m_macro) >= 2

\* A request the callback rejects: Record pressed on a button that shows
\* "Start Recording" while the player plays, Play pressed on a button that
\* shows "Play Macro" while the recorder records or the player plays.
C29_RejectedRecord == ~ui_recording /\ player_playing /\ AppUI_toggle_record
C29_RejectedPlay ==
    /\ ~ui_playing
    /\ rec_recording \/ player_playing
    /\ \E speed_text \in SpeedTexts, loops_text \in LoopsTexts, jitter_text \in JitterTexts :
            AppUI_toggle_play(speed_text, loops_text, jitter_text)

\* C29: a start-recording request rejected because the player plays, and a
\* play request rejected because the recorder records or the player plays,
\* change nothing: the recorder's state, the player's state, the current
\* macro and the flags AppUI._recording and AppUI._playing stay as they were.
C29_RejectedMutatesNothing ==
    [][(C29_RejectedRecord \/ C29_RejectedPlay)
            => UNCHANGED <<recVars, heapVars, macro_ref, player_playing, player_stop_evt,
                           worker, ui_recording, ui_playing>>]_vars

\* C29, the part the callbacks themselves keep: a rejected request leaves the
\* recorder, the player and the current macro as they were.
C29_CallbacksMutateNothing ==
    [][(C29_RejectedRecord \/ C29_RejectedPlay)
            => UNCHANGED <<recVars, heapVars, macro_ref, player_playing, player_stop_evt,
                           worker>>]_vars

\* The Record button shows "Stop Recording" while the recorder is idle and the
\* player plays: the rejected request has flipped the flag.
C29_FlagFlipped == ui_recording /\ ~rec_recording /\ player_playing

\* C30: whatever the three fields hold, a play request made through the Play
\* button or through the play hotkey does not raise, and the thread it starts
\* plays at least once with a jitter that is not negative.
C30_InputsMadeSafe ==
    /\ ~ghost.raised
    /\ \A w \in Workers :
            worker[w].caller = "run" /\ worker[w].pc # "idle"
                => worker[w].loops >= 1 /\ worker[w].jitter >= 0

\* C30, the half that holds: through the Play button, a text that is no number
\* is replaced by its default (speed 1.0, loops 1, jitter 0).
C30_UnparsableDefaults ==
    \A speed_text \in SpeedTexts, loops_text \in LoopsTexts, jitter_text \in JitterTexts :
        LET a == AppUI_ensure_numeric_defaults(speed_text, loops_text, jitter_text)
        IN  /\ ~Parses(speed_text) => a.speed = SpeedOne
            /\ ~Parses(loops_text) => a.loops = 1
            /\ ~Parses(jitter_text) => a.jitter = 0

\* C31: the timestamps of the Control Surface's current macro, whether it was
\* recorded or loaded, are at least 0 and never decrease.
C31_CurrentMacroMonotone ==
    /\ \A k \in DOMAIN heap[macro_ref] : heap[macro_ref][k].t >= 0
    /\ \A k \in 1..(Len(heap[macro_ref]) - 1) :
            heap[macro_ref][k].t <= heap[macro_ref][k + 1].t

\* C32: stop_rec called while the recorder is idle (the Record button shows
\* "Stop Recording" and the recorder does not record) leaves the current macro
\* as it was.
C32_IdleStopKeepsMacro ==
    [][(ui_recording /\ ~rec_recording /\ AppUI_toggle_record)
            => macro_ref' = macro_ref]_vars

\* The playback thread w is in the loop over the events of Player.play.
C33_InLoop(w) == worker[w].pc \in {"check1", "wait", "check2", "emit"}

\* C33: at most one playback thread is in the event loop of Player.play at
\* any time, however close together the play requests were made.
C33_OnePlaybackLoop == Cardinality({w \in Workers : C33_InLoop(w)}) <= 1

\* C34: every Player.play call on a non-empty macro ends, and has left
\* playing False when it has ended: whether it ran to the last event, was
\* stopped, or an emission or the status sink raised.
C34_PlayReturnsIdle ==
    (worker[1].pc = "set_playing") ~> (worker[1].pc = "done" /\ ~player_playing)

\* C34 with a status sink that works: the call ends and has left playing
\* False, even when emissions raise or stop() is called.
C34_PlayReturnsIdleWithSink ==
    (worker[1].pc = "set_playing" /\ ~SinkRaises(1))
        ~> (worker[1].pc = "done" /\ ~player_playing)

\* C35: a click event is replayed as one pointer-position set at the recorded
\* position followed by one button action, a press when pressed is true and a
\* release otherwise, on the button that was recorded: the button acted on is
\* the one button_to_str gave the recorded name.
C35_ClickReplayedAsRecorded ==
    worker[1].pc \notin {"idle", "done"} =>
        \A k \in DOMAIN emitted[1] :
            LET e == heap[worker[1].macro][emitted[1][k].i]
                ops == emitted[1][k].ops
            IN  e.kind = "click" =>
                    /\ Len(ops) = 2
                    /\ ops[1] = [op |-> "position", x |-> e.data.x, y |-> e.data.y]
                    /\ ops[2].op = IF e.data.pressed THEN "press" ELSE "release"
                    /\ button_to_str(ops[2].button) = e.data.button

\* C35 without its last line: one position set, then one press or release.
C35_OnePositionOneAction ==
    worker[1].pc \notin {"idle", "done"} =>
        \A k \in DOMAIN emitted[1] :
            LET e == heap[worker[1].macro][emitted[1][k].i]
                ops == emitted[1][k].ops
            IN  e.kind = "click" =>
                    /\ Len(ops) = 2
                    /\ ops[1] = [op |-> "position", x |-> e.data.x, y |-> e.data.y]
                    /\ ops[2].op = IF e.data.pressed THEN "press" ELSE "release"

\* C36: every key event the Recorder has recorded is replayable: its symbol
\* resolves to a key, and playing the event acts on the keyboard.
C36_RecordedKeysReplayed ==
    /\ \A k \in DOMAIN heap[rec_macro] :
            heap[rec_macro][k].kind \in {"kpress", "krelease"}
                => str_to_key(heap[rec_macro][k].data.key) # NoKey
    /\ worker[1].pc \notin {"idle", "done"} =>
            \A k \in DOMAIN emitted[1] :
                heap[worker[1].macro][emitted[1][k].i].kind \in {"kpress", "krelease"}
                    => emitted[1][k].ops # <<>>

\* C36 for the keys that have a character or a name: their events resolve.
C36_CharAndNamedKeysReplayed ==
    \A k \in DOMAIN heap[rec_macro] :
        LET key == heap[rec_macro][k].data.key
        IN  /\ heap[rec_macro][k].kind \in {"kpress", "krelease"}
            /\ key # key_to_str(KeyCodeOnly(<<"6", "3">>))
            => str_to_key(key) # NoKey

\* C37: AppUI._playing is True only while a playback requested by the Play
\* control is under way; once the playback has ended by itself, or the request
\* was rejected or found nothing to play, the next activation of the control
\* requests a playback.
C37_PlayFlagFollowsPlayer == ui_playing => \E w \in Workers : ~Free(w)

\* C38: given the same move callbacks at the same times during one recording,
\* Recorder._on_move and on_move of MacOSTinyTask.py have recorded the same
\* move events whenever both have returned.
C38_SameMoves == (BothIdle /\ rec_recording /\ m_recording) => heap[rec_macro] = m_macro

\* The operations a playback has done, in order.
RECURSIVE C39_Ops(_)
C39_Ops(done) == IF done = <<>> THEN <<>> ELSE Head(done).ops \o C39_Ops(Tail(done))

\* The button or the key an operation acts on.
C39_Item(o) == IF o.op \in {"press", "release"} THEN [button |-> o.button] ELSE [key |-> o.key]

\* The buttons and keys that a sequence of operations leaves pressed.
C39_Held(ops) ==
    {C39_Item(ops[j]) : j \in {j \in DOMAIN ops :
        /\ ops[j].op \in {"press", "key_press"}
        /\ ~\E i \in DOMAIN ops :
                /\ i > j
                /\ ops[i].op \in {"release", "key_release"}
                /\ C39_Item(ops[i]) = C39_Item(ops[j])}}

\* C39: when Player.play has returned from a well-formed macro, every button
\* and key it pressed has been released, also when stop() cancelled it.
C39_NothingLeftPressed ==
    worker[1].pc = "done" => C39_Held(C39_Ops(emitted[1])) = {}

\* C39 for a playback that no stop() cancelled.
C39_NothingLeftPressedUncancelled ==
    (worker[1].pc = "done" /\ ~ghost.call_stops /\ ~ghost.stop_while_playing)
        => C39_Held(C39_Ops(emitted[1])) = {}

====
